---- MODULE Spec2Model ----
(***************************************************************************)
(* Model of the selection outline engine of the editor                     *)
(* (editor/src/editor/rendering/outline.ts, class Outline) together with   *)
(* the part of the host scene it reads and writes: the scene's meshes,     *)
(* their ids, rendering groups and LOD tables.                             *)
(*                                                                         *)
(* A mesh of the host is a number; scene.meshes lists the host's meshes in *)
(* increasing order.  An outline mesh is a record: the mesh whose vertex   *)
(* data it copies (source), its parent, rendering group, scaling (in       *)
(* hundredths), material (an index in _outlineMaterials) and whether it    *)
(* has been disposed.                                                      *)
(***************************************************************************)
EXTENDS Integers, Sequences, FiniteSets, TLC

(***************************************************************************)
(* Bounds of the model.                                                    *)
(***************************************************************************)
NumMeshes == 3      \* host meshes in the scene, in scene.meshes order
NumIds == 3         \* distinct id strings the host gives its meshes
MaxGroup == 1       \* host rendering groups are 0..MaxGroup
MaxLod == 2         \* longest LOD table of a mesh
MaxHostDisposals == 1 \* meshes the host disposes during a run
MaxEnableCalls == 3 \* calls of MixedRealityEnabled during a run

NoMesh == 0         \* the null mesh reference
Meshes == 1..NumMeshes
MeshOrNull == Meshes \cup {NoMesh}
Ids == 1..NumIds
Groups == 0..MaxGroup

(***************************************************************************)
(* Program constants: the defaults of the public fields of Outline.        *)
(* The scale 1.05 is kept in hundredths.                                   *)
(***************************************************************************)
OriginalRenderingGroupId == 1
OutlineRenderingGroupId == 0
DefaultOutlineScale == 105
DefaultOutlineColor == "#446BAA"

\* The defaults of the public fields of the clone-based Outline; the
\* thickness 1.02 is kept in hundredths.
DefaultOutlineThickness == 102
PerfectRenderingGroupId == 1

\* The colors and the scales (in hundredths) the editor passes to
\* updateOutlineColor and updateOutlineScale.
Colors == {DefaultOutlineColor, "#FF0000"}
Scales == {DefaultOutlineScale, 110, 120}

VARIABLES
    className,              \* host: class name of each mesh (fixed)
    lodLevels,              \* host: LOD table of each mesh (fixed)
    meshId,                 \* host: mesh.id of each mesh
    renderingGroupId,       \* host: mesh.renderingGroupId of each mesh
    inScene,                \* host: is the mesh still in scene.meshes
    currentSelectedMesh,    \* Outline._currentSelectedMesh
    outlineMeshes,          \* Outline._outlineMeshes
    outlineMaterials,       \* Outline._outlineMaterials
    originalRenderingGroups,\* Outline._originalRenderingGroups
    outlineColor,           \* Outline.outlineColor
    outlineScale,           \* Outline.outlineScale
    sceneOutlineMeshes,     \* number of engine-created meshes in scene.meshes
    sceneOutlineMaterials,  \* number of engine-created materials in the scene
    last,                   \* record of the last call and of what it did
    geometry,               \* host: position, scaling and extent of each mesh
    perfect,                \* the clone-based Outline: its fields
    mr,                     \* tools/mixed-reality: module state, navigator, scene
    component,              \* MixedRealityComponent: state, window handlers, timers
    session                 \* the session last returned by navigator.xr.requestSession

vars == <<className, lodLevels, meshId, renderingGroupId, inScene,
          currentSelectedMesh, outlineMeshes, outlineMaterials,
          originalRenderingGroups, outlineColor, outlineScale,
          sceneOutlineMeshes, sceneOutlineMaterials, last, geometry, perfect,
          mr, component, session>>

\* The state of the mixed-reality tools, which no method of Outline touches.
toolVars == <<mr, component, session>>

(***************************************************************************)
(* Small helpers on sequences and sets.                                    *)
(***************************************************************************)
Range(s) == {s[i] : i \in DOMAIN s}

SetMin(S) == CHOOSE x \in S : \A y \in S : x <= y

(***************************************************************************)
(* Type guards of the editor (tools/guards/nodes).                         *)
(***************************************************************************)
IsMesh(m) == m # NoMesh /\ className[m] = "Mesh"

IsInstancedMesh(m) == m # NoMesh /\ className[m] = "InstancedMesh"

\* InstancedMesh.sourceMesh: the mesh an instance was made from.
SourceMesh(m) ==
    LET cands == {s \in Meshes : s # m /\ className[s] = "Mesh"}
    IN  IF cands = {} THEN NoMesh ELSE SetMin(cands)

(***************************************************************************)
(* Scene.getMeshByID: the first mesh of scene.meshes with that id, or      *)
(* null.  Host meshes come before the engine's meshes in scene.meshes, and *)
(* the engine's meshes get fresh ids (name_outline_<time>).                *)
(***************************************************************************)
\* Variant: the lookup also finds meshes that have left the scene.
GetMeshByIDAnywhere(id) ==
    LET found == {m \in Meshes : meshId[m] = id}
    IN  IF found = {} THEN NoMesh ELSE SetMin(found)

GetMeshByID(id) ==
    LET found == {m \in Meshes : inScene[m] /\ meshId[m] = id}
    IN  IF found = {} THEN NoMesh ELSE SetMin(found)

(***************************************************************************)
(* The engine's state while one call runs: the fields of Outline, the      *)
(* rendering groups of the host meshes (rg), the number of engine-created  *)
(* meshes and materials registered in the scene, and a log of what the     *)
(* call has done so far.                                                   *)
(***************************************************************************)
EmptyLog ==
    [createdMeshes |-> 0, createdMaterials |-> 0,
     disposedMeshes |-> 0, disposedMaterials |-> 0,
     assigned |-> {}, restored |-> {}, skipped |-> {}, failed |-> {}]

EngineState ==
    [meshes |-> outlineMeshes, mats |-> outlineMaterials,
     table |-> originalRenderingGroups, rg |-> renderingGroupId,
     color |-> outlineColor, scale |-> outlineScale,
     nMeshes |-> sceneOutlineMeshes, nMats |-> sceneOutlineMaterials,
     log |-> EmptyLog]

\* new Mesh(name, scene): a mesh with the defaults of Babylon.
NewMesh(sourceMesh) ==
    [source |-> sourceMesh, parent |-> NoMesh, renderingGroupId |-> 0,
     position |-> 0, scaling |-> 100, material |-> 0, disposed |-> FALSE]

\* Map.set(key, value) on a Map kept in insertion order.
MapSet(table, key, value) ==
    IF \E i \in DOMAIN table : table[i].id = key
    THEN [i \in DOMAIN table |->
            IF table[i].id = key THEN [id |-> key, group |-> value] ELSE table[i]]
    ELSE Append(table, [id |-> key, group |-> value])

\* The number of meshes of a list that are still registered in the scene.
NumLive(ms) == Cardinality({i \in DOMAIN ms : ~ms[i].disposed})

\* Variant: the new mesh is not disposed when the copy throws.
CreateOutlineMeshFromVerticesLeaksMesh(E, sourceMesh, failing) ==
    LET E1 == [E EXCEPT !.nMeshes = @ + 1, !.log.createdMeshes = @ + 1]
    IN  IF sourceMesh \in failing
        THEN [e |-> [E1 EXCEPT !.log.failed = @ \cup {sourceMesh}],
              ok |-> FALSE, mesh |-> NewMesh(sourceMesh)]
        ELSE [e |-> E1, ok |-> TRUE, mesh |-> NewMesh(sourceMesh)]

(***************************************************************************)
(* Outline._createOutlineMeshFromVertices: registers a new mesh in the     *)
(* scene and copies the vertex data of sourceMesh into it; when the copy   *)
(* throws (sourceMesh in failing) the new mesh is disposed and the result  *)
(* is null (ok = FALSE).                                                   *)
(***************************************************************************)
CreateOutlineMeshFromVertices(E, sourceMesh, failing) ==
    LET E1 == [E EXCEPT !.nMeshes = @ + 1, !.log.createdMeshes = @ + 1]
    IN  IF sourceMesh \in failing
        THEN [e |-> [E1 EXCEPT !.nMeshes = @ - 1,
                               !.log.failed = @ \cup {sourceMesh}],
              ok |-> FALSE, mesh |-> NewMesh(sourceMesh)]
        ELSE [e |-> E1, ok |-> TRUE, mesh |-> NewMesh(sourceMesh)]

(***************************************************************************)
(* Outline._createOutlineMaterial: a new material with the current color,  *)
(* registered in the scene and pushed on _outlineMaterials.                *)
(***************************************************************************)
CreateOutlineMaterial(E) ==
    [E EXCEPT !.mats = Append(@, [emissiveColor |-> E.color,
                                  diffuseColor |-> E.color]),
              !.nMats = @ + 1,
              !.log.createdMaterials = @ + 1]

\* Variant: the outline is put in the rendering group of the original.
ConfigureOutlineMeshSameGroup(E, outlineMesh, originalMesh) ==
    LET E1 == CreateOutlineMaterial(E)
    IN  [e |-> E1,
         mesh |-> [outlineMesh EXCEPT
                     !.scaling = E.scale,
                     !.parent = originalMesh,
                     !.renderingGroupId = OriginalRenderingGroupId,
                     !.material = Len(E1.mats)]]

\* Variant: the outline mesh is not made a child of the original.
ConfigureOutlineMeshUnparented(E, outlineMesh, originalMesh) ==
    LET E1 == CreateOutlineMaterial(E)
    IN  [e |-> E1,
         mesh |-> [outlineMesh EXCEPT
                     !.scaling = E.scale,
                     !.renderingGroupId = OutlineRenderingGroupId,
                     !.material = Len(E1.mats)]]

(***************************************************************************)
(* Outline._configureOutlineMesh: scale, parent, rendering group and       *)
(* material of a new outline mesh.  The material is the one just pushed.   *)
(***************************************************************************)
ConfigureOutlineMesh(E, outlineMesh, originalMesh) ==
    LET E1 == CreateOutlineMaterial(E)
    IN  [e |-> E1,
         mesh |-> [outlineMesh EXCEPT
                     !.scaling = E.scale,
                     !.parent = originalMesh,
                     !.renderingGroupId = OutlineRenderingGroupId,
                     !.material = Len(E1.mats)]]

\* Variant: the loop over the LOD levels does not test that the mesh of
\* a level is a Mesh.
RECURSIVE CreateLodOutlinesAnyClass(_, _, _)
CreateLodOutlinesAnyClass(E, lods, failing) ==
    IF lods = <<>> THEN E
    ELSE
        LET lod == Head(lods)
        IN  IF lod # NoMesh
            THEN
                LET r == CreateOutlineMeshFromVertices(E, lod, failing)
                IN  IF r.ok
                    THEN
                        LET c == ConfigureOutlineMesh(r.e, r.mesh, lod)
                            E2 == [c.e EXCEPT
                                     !.meshes = Append(@, c.mesh),
                                     !.rg[lod] = OriginalRenderingGroupId,
                                     !.log.assigned = @ \cup {lod}]
                        IN  CreateLodOutlinesAnyClass(E2, Tail(lods), failing)
                    ELSE CreateLodOutlinesAnyClass(r.e, Tail(lods), failing)
            ELSE CreateLodOutlinesAnyClass(E, Tail(lods), failing)

\* Variant: the loop over the LOD levels ends at the first level whose
\* copy fails.
RECURSIVE CreateLodOutlinesStopAtFailure(_, _, _)
CreateLodOutlinesStopAtFailure(E, lods, failing) ==
    IF lods = <<>> THEN E
    ELSE
        LET lod == Head(lods)
        IN  IF lod # NoMesh /\ IsMesh(lod)
            THEN
                LET r == CreateOutlineMeshFromVertices(E, lod, failing)
                IN  IF r.ok
                    THEN
                        LET c == ConfigureOutlineMesh(r.e, r.mesh, lod)
                            E2 == [c.e EXCEPT
                                     !.meshes = Append(@, c.mesh),
                                     !.rg[lod] = OriginalRenderingGroupId,
                                     !.log.assigned = @ \cup {lod}]
                        IN  CreateLodOutlinesStopAtFailure(E2, Tail(lods), failing)
                    ELSE r.e
            ELSE CreateLodOutlinesStopAtFailure(E, Tail(lods), failing)

(***************************************************************************)
(* The forEach over getLODLevels() of _createOutlineForMesh.               *)
(***************************************************************************)
RECURSIVE CreateLodOutlines(_, _, _)
CreateLodOutlines(E, lods, failing) ==
    IF lods = <<>> THEN E
    ELSE
        LET lod == Head(lods)
        IN  IF lod # NoMesh /\ IsMesh(lod)
            THEN
                LET r == CreateOutlineMeshFromVertices(E, lod, failing)
                IN  IF r.ok
                    THEN
                        LET c == ConfigureOutlineMesh(r.e, r.mesh, lod)
                            E2 == [c.e EXCEPT
                                     !.meshes = Append(@, c.mesh),
                                     !.rg[lod] = OriginalRenderingGroupId,
                                     !.log.assigned = @ \cup {lod}]
                        IN  CreateLodOutlines(E2, Tail(lods), failing)
                    ELSE CreateLodOutlines(r.e, Tail(lods), failing)
            ELSE CreateLodOutlines(E, Tail(lods), failing)

(***************************************************************************)
(* Outline._createOutlineForMesh.                                          *)
(***************************************************************************)
CreateOutlineForMesh(E, mesh, failing) ==
    LET effectiveMesh == IF IsInstancedMesh(mesh) THEN SourceMesh(mesh) ELSE mesh
    IN  IF ~IsMesh(effectiveMesh) THEN E
        ELSE
            LET E1 == [E EXCEPT
                         !.table = MapSet(@, meshId[effectiveMesh], E.rg[effectiveMesh]),
                         !.rg[effectiveMesh] = OriginalRenderingGroupId,
                         !.log.assigned = @ \cup {effectiveMesh}]
                r == CreateOutlineMeshFromVertices(E1, effectiveMesh, failing)
            IN  IF ~r.ok THEN r.e
                ELSE
                    LET c == ConfigureOutlineMesh(r.e, r.mesh, effectiveMesh)
                        E2 == [c.e EXCEPT !.meshes = Append(@, c.mesh)]
                    IN  CreateLodOutlines(E2, lodLevels[effectiveMesh], failing)

(***************************************************************************)
(* The forEach of _clearOutline that restores the rendering groups: each   *)
(* recorded id is looked up in the scene, and the group is written back to *)
(* the mesh found, when one is found and it is a Mesh.                     *)
(***************************************************************************)
RECURSIVE RestoreRenderingGroups(_, _)
RestoreRenderingGroups(E, entries) ==
    IF entries = <<>> THEN E
    ELSE
        LET mesh == GetMeshByID(Head(entries).id)
        IN  IF mesh # NoMesh /\ IsMesh(mesh)
            THEN RestoreRenderingGroups(
                    [E EXCEPT !.rg[mesh] = Head(entries).group,
                              !.log.restored = @ \cup {mesh}],
                    Tail(entries))
            ELSE RestoreRenderingGroups(
                    [E EXCEPT !.log.skipped = @ \cup {Head(entries).id}],
                    Tail(entries))

\* Variant: the list of outline meshes is not emptied.
ClearOutlineKeepsMeshes(E) ==
    LET E1 == [E EXCEPT
                 !.nMeshes = @ - NumLive(E.meshes),
                 !.log.disposedMeshes = @ + Len(E.meshes),
                 !.meshes = [i \in DOMAIN E.meshes |->
                               [E.meshes[i] EXCEPT !.disposed = TRUE]],
                 !.nMats = @ - Len(E.mats),
                 !.log.disposedMaterials = @ + Len(E.mats),
                 !.mats = <<>>]
        E2 == RestoreRenderingGroups(E1, E1.table)
    IN  [E2 EXCEPT !.table = <<>>]

(***************************************************************************)
(* Outline._clearOutline: dispose the outline meshes and materials, empty  *)
(* both lists, restore the recorded rendering groups, empty the table.     *)
(***************************************************************************)
ClearOutline(E) ==
    LET E1 == [E EXCEPT
                 !.nMeshes = @ - NumLive(E.meshes),
                 !.log.disposedMeshes = @ + Len(E.meshes),
                 !.meshes = <<>>,
                 !.nMats = @ - Len(E.mats),
                 !.log.disposedMaterials = @ + Len(E.mats),
                 !.mats = <<>>]
        E2 == RestoreRenderingGroups(E1, E1.table)
    IN  [E2 EXCEPT !.table = <<>>]

(***************************************************************************)
(* The record kept of the last call of a method of Outline: its name and   *)
(* mesh argument, the rendering groups, the color and the scale before it, *)
(* whether the engine held no outline state before it, and the log of what *)
(* it did.                                                                 *)
(***************************************************************************)
Idle ==
    /\ outlineMeshes = <<>>
    /\ outlineMaterials = <<>>
    /\ originalRenderingGroups = <<>>

CallRecord(op, arg, E) ==
    [op |-> op, arg |-> arg,
     before |-> renderingGroupId,
     style |-> <<outlineColor, outlineScale>>,
     idle |-> Idle,
     log |-> E.log]

Commit(E) ==
    /\ outlineMeshes' = E.meshes
    /\ outlineMaterials' = E.mats
    /\ originalRenderingGroups' = E.table
    /\ renderingGroupId' = E.rg
    /\ outlineColor' = E.color
    /\ outlineScale' = E.scale
    /\ sceneOutlineMeshes' = E.nMeshes
    /\ sceneOutlineMaterials' = E.nMats

(***************************************************************************)
(* The host scenes of the model.                                           *)
(***************************************************************************)
ClassNames == {"Mesh", "InstancedMesh"}

\* The first mesh of the scene may be an instance; the others are meshes.
ClassTables ==
    {c \in [Meshes -> ClassNames] :
        \A m \in Meshes : c[m] # "Mesh" => m = 1}

\* Id strings, named in the order of their first use in scene.meshes; at
\* most one mesh repeats the id of an earlier mesh.
IdTables ==
    {t \in [Meshes -> Ids] :
        /\ \A m \in Meshes : t[m] = 1 \/ \E k \in 1..(m - 1) : t[k] = t[m] - 1
        /\ Cardinality({m \in Meshes : \E k \in 1..(m - 1) : t[k] = t[m]}) <= 1}

\* An id table that gives every mesh an id of its own.
UniqueIdTable(t) == \A m, k \in Meshes : m # k => t[m] # t[k]

\* Rendering groups of the host: the default group 0, but for one mesh at most.
GroupTables ==
    {g \in [Meshes -> Groups] :
        Cardinality({m \in Meshes : g[m] # 0}) <= 1}

\* LOD tables: the last mesh of the scene may have LOD levels; its levels
\* are the meshes created just before it, in scene order, and the farthest
\* level may be null (the mesh is culled beyond that distance).
LodSeqs ==
    LET most == IF MaxLod < NumMeshes - 1 THEN MaxLod ELSE NumMeshes - 1
    IN  {[i \in 1..k |-> NumMeshes - k + i - 1] : k \in 0..most}
        \cup {[i \in 1..(k + 1) |->
                   IF i = k + 1 THEN NoMesh ELSE NumMeshes - k + i - 1] :
                k \in 0..(IF most < MaxLod - 1 THEN most ELSE MaxLod - 1)}

LodTables ==
    {[m \in Meshes |-> IF m = NumMeshes THEN s ELSE <<>>] : s \in LodSeqs}

\* The geometry of a host mesh along one axis: the position of its pivot
\* in the world, its scaling in hundredths, and the extent lo..hi of its
\* vertices in its local space.  Host meshes have no parent.
Positions == {-2, 0, 3}
HostScalings == {100, 200}
Extents == {<<-1, 1>>, <<0, 2>>}

DefaultGeometry == [position |-> 0, scaling |-> 100, lo |-> -1, hi |-> 1]

Geometries ==
    {[position |-> p, scaling |-> s, lo |-> e[1], hi |-> e[2]] :
        p \in Positions, s \in HostScalings, e \in Extents}

\* Geometry tables: one mesh at most is not the default unit mesh.
GeometryTables ==
    {[m \in Meshes |-> IF m = k THEN g ELSE DefaultGeometry] :
        k \in Meshes, g \in Geometries}

\* The clone-based Outline after its constructor.
NewPerfect ==
    [currentSelectedMesh |-> NoMesh, outlineMeshes |-> <<>>,
     outlineThickness |-> DefaultOutlineThickness,
     renderingGroupId |-> PerfectRenderingGroupId,
     materialDisposed |-> FALSE, sceneOutlineMeshes |-> 0,
     rendered |-> FALSE]

(***************************************************************************)
(* tools/mixed-reality.ts: the module variables after the module is        *)
(* loaded, with the navigator of the host and the scene of the preview.    *)
(* A property of navigator is undefined, native, or a polyfill, and counts *)
(* the wrappers put around it.  An observer is a positive number, 0 is     *)
(* null; originalWebXR and scene._vrSimulation are <<>> when not set.      *)
(***************************************************************************)
NavigatorValue(impl) == [impl |-> impl, wraps |-> 0]

HostNavigators ==
    {[xr |-> NavigatorValue(a), getVRDisplays |-> NavigatorValue(b),
      requestVRDisplay |-> NavigatorValue(c)] :
        a \in {"undefined", "native"}, b \in {"undefined", "native"},
        c \in {"undefined", "native"}}

NativeNavigator ==
    [xr |-> NavigatorValue("native"), getVRDisplays |-> NavigatorValue("native"),
     requestVRDisplay |-> NavigatorValue("native")]

NoInjections ==
    [vr |-> 0, additional |-> 0, aggressive |-> 0, nullSafety |-> 0,
     domBinding |-> 0]

NewMixedReality(nav) ==
    [isVRSimulationEnabled |-> FALSE,
     vrHeadsetCube |-> FALSE,
     vrUpdateObserver |-> 0,
     originalWebXR |-> <<>>,
     polyfillInjected |-> FALSE,
     navigator |-> nav,
     observers |-> {},
     vrSimulation |-> <<>>,
     injections |-> NoInjections,
     consoleErrorWraps |-> 0,
     nullSafetyWraps |-> 0,
     observersAdded |-> 0,
     calls |-> <<>>]

\* MixedRealityComponent after its constructor, in a window whose error
\* handlers are those of the host (0).
NewComponent ==
    [lifecycle |-> "constructed",
     canvas |-> TRUE,
     engine |-> "none",
     vrHeadset |-> FALSE,
     canvasReady |-> FALSE,
     canvasError |-> FALSE,
     initTimers |-> 0,
     initRuns |-> 0,
     lateInit |-> [runs |-> 0, setStates |-> 0, engines |-> 0],
     isVrEnabled |-> FALSE,
     previewVr |-> FALSE,
     onerror |-> 0,
     onunhandledrejection |-> 0,
     wrappers |-> 0,
     restoreTimers |-> <<>>,
     invocations |-> <<>>]

\* No session has been requested.
NoSession ==
    [sessionType |-> "none", enabledFeatures |-> <<>>,
     requestedFeatures |-> <<>>, featureTest |-> "literal",
     getUniqueId |-> "none"]

InitTools ==
    /\ mr = NewMixedReality(NativeNavigator)
    /\ component = NewComponent
    /\ session = NoSession

InitOutline ==
    /\ className \in ClassTables
    /\ lodLevels \in LodTables
    /\ meshId \in IdTables
    /\ renderingGroupId \in GroupTables
    /\ inScene = [m \in Meshes |-> TRUE]
    /\ currentSelectedMesh = NoMesh
    /\ outlineMeshes = <<>>
    /\ outlineMaterials = <<>>
    /\ originalRenderingGroups = <<>>
    /\ outlineColor = DefaultOutlineColor
    /\ outlineScale = DefaultOutlineScale
    /\ sceneOutlineMeshes = 0
    /\ sceneOutlineMaterials = 0
    /\ last = [op |-> "new", arg |-> NoMesh, before |-> renderingGroupId,
               style |-> <<DefaultOutlineColor, DefaultOutlineScale>>,
               idle |-> TRUE, log |-> EmptyLog]

Init ==
    /\ InitOutline
    /\ geometry = [m \in Meshes |-> DefaultGeometry]
    /\ perfect = NewPerfect
    /\ InitTools

(***************************************************************************)
(* Outline.setOutlineMesh(mesh).  failing is the set of meshes whose       *)
(* vertex data cannot be copied during this call.  The editor passes null  *)
(* or a mesh of the scene.                                                 *)
(***************************************************************************)
\* The meshes whose vertex data a call setOutlineMesh(mesh) reads.
Extracted(mesh) ==
    IF IsMesh(mesh)
    THEN {mesh} \cup {l \in Range(lodLevels[mesh]) : IsMesh(l)}
    ELSE {}

SetOutlineMesh(mesh, failing) ==
    /\ mesh # NoMesh => inScene[mesh]
    /\ failing \subseteq Extracted(mesh)
    /\ LET E1 == ClearOutline(EngineState)
           E2 == IF mesh # NoMesh /\ IsMesh(mesh)
                 THEN CreateOutlineForMesh(E1, mesh, failing)
                 ELSE E1
       IN  /\ Commit(E2)
           /\ last' = CallRecord("setOutlineMesh", mesh, E2)
    /\ currentSelectedMesh' = mesh
    /\ UNCHANGED <<className, lodLevels, meshId, inScene, geometry, perfect, toolVars>>

\* Variant: dispose() leaves the selected mesh in place.
DisposeKeepsSelection ==
    /\ LET E1 == ClearOutline(EngineState)
       IN  /\ Commit(E1)
           /\ last' = CallRecord("dispose", NoMesh, E1)
    /\ UNCHANGED <<currentSelectedMesh, className, lodLevels, meshId, inScene,
                   geometry, perfect, toolVars>>

(***************************************************************************)
(* Outline.dispose().                                                      *)
(***************************************************************************)
Dispose ==
    /\ LET E1 == ClearOutline(EngineState)
       IN  /\ Commit(E1)
           /\ last' = CallRecord("dispose", NoMesh, E1)
    /\ currentSelectedMesh' = NoMesh
    /\ UNCHANGED <<className, lodLevels, meshId, inScene, geometry, perfect, toolVars>>

(***************************************************************************)
(* The host disposes the mesh that is selected: the mesh leaves            *)
(* scene.meshes and its children, the outline meshes parented to it, are   *)
(* disposed with it.                                                       *)
(***************************************************************************)
HostDisposeMesh(m) ==
    /\ inScene[m]
    /\ m = currentSelectedMesh
    /\ Cardinality({k \in Meshes : ~inScene[k]}) < MaxHostDisposals
    /\ inScene' = [inScene EXCEPT ![m] = FALSE]
    /\ outlineMeshes' =
          [i \in DOMAIN outlineMeshes |->
             IF outlineMeshes[i].parent = m
             THEN [outlineMeshes[i] EXCEPT !.disposed = TRUE]
             ELSE outlineMeshes[i]]
    /\ sceneOutlineMeshes' = sceneOutlineMeshes - NumLive(outlineMeshes)
                               + NumLive(outlineMeshes')
    /\ UNCHANGED <<last, className, lodLevels, meshId, renderingGroupId,
                   currentSelectedMesh, outlineMaterials,
                   originalRenderingGroups, outlineColor, outlineScale,
                   sceneOutlineMaterials, geometry, perfect, toolVars>>

Next ==
    \/ \E mesh \in MeshOrNull : \E failing \in SUBSET Meshes :
          SetOutlineMesh(mesh, failing)
    \/ Dispose
    \/ \E m \in Meshes : HostDisposeMesh(m)

Spec == Init /\ [][Next]_vars

\* Variant: the color is stored, the existing materials are left alone.
UpdateOutlineColorFieldOnly(color) ==
    /\ outlineColor' = color
    /\ last' = CallRecord("updateOutlineColor", NoMesh, EngineState)
    /\ UNCHANGED <<outlineMaterials, className, lodLevels, meshId,
                   renderingGroupId, inScene, currentSelectedMesh,
                   outlineMeshes, originalRenderingGroups, outlineScale,
                   sceneOutlineMeshes, sceneOutlineMaterials,
                   geometry, perfect, toolVars>>

(***************************************************************************)
(* Outline.updateOutlineColor(color): stores the color and writes it to    *)
(* the emissive and diffuse color of every material of _outlineMaterials.  *)
(***************************************************************************)
UpdateOutlineColor(color) ==
    /\ outlineColor' = color
    /\ outlineMaterials' =
          [i \in DOMAIN outlineMaterials |->
             [outlineMaterials[i] EXCEPT !.emissiveColor = color,
                                         !.diffuseColor = color]]
    /\ last' = CallRecord("updateOutlineColor", NoMesh, EngineState)
    /\ UNCHANGED <<className, lodLevels, meshId, renderingGroupId, inScene,
                   currentSelectedMesh, outlineMeshes,
                   originalRenderingGroups, outlineScale,
                   sceneOutlineMeshes, sceneOutlineMaterials,
                   geometry, perfect, toolVars>>

\* Variant: the new scale is applied on top of the scaling a duplicate has.
UpdateOutlineScaleMultiplies(scale) ==
    /\ outlineScale' = scale
    /\ outlineMeshes' =
          [i \in DOMAIN outlineMeshes |->
             [outlineMeshes[i] EXCEPT !.scaling = (@ * scale) \div 100]]
    /\ last' = CallRecord("updateOutlineScale", NoMesh, EngineState)
    /\ UNCHANGED <<className, lodLevels, meshId, renderingGroupId, inScene,
                   currentSelectedMesh, outlineMaterials,
                   originalRenderingGroups, outlineColor,
                   sceneOutlineMeshes, sceneOutlineMaterials,
                   geometry, perfect, toolVars>>

(***************************************************************************)
(* Outline.updateOutlineScale(scale): stores the scale and gives every     *)
(* mesh of _outlineMeshes the scaling (scale, scale, scale).               *)
(***************************************************************************)
UpdateOutlineScale(scale) ==
    /\ outlineScale' = scale
    /\ outlineMeshes' =
          [i \in DOMAIN outlineMeshes |->
             [outlineMeshes[i] EXCEPT !.scaling = scale]]
    /\ last' = CallRecord("updateOutlineScale", NoMesh, EngineState)
    /\ UNCHANGED <<className, lodLevels, meshId, renderingGroupId, inScene,
                   currentSelectedMesh, outlineMaterials,
                   originalRenderingGroups, outlineColor,
                   sceneOutlineMeshes, sceneOutlineMaterials,
                   geometry, perfect, toolVars>>

(***************************************************************************)
(* The engine with its color and scale controls, in scenes of meshes with  *)
(* unique ids that the host does not dispose.                              *)
(***************************************************************************)
InitStyle ==
    /\ Init
    /\ UniqueIdTable(meshId)
    /\ \A m \in Meshes : className[m] = "Mesh"

NextStyle ==
    \/ \E mesh \in MeshOrNull : \E failing \in SUBSET Meshes :
          SetOutlineMesh(mesh, failing)
    \/ Dispose
    \/ \E color \in Colors : UpdateOutlineColor(color)
    \/ \E scale \in Scales : UpdateOutlineScale(scale)

SpecStyle == InitStyle /\ [][NextStyle]_vars

(***************************************************************************)
(* World space along one axis, in ten-thousandths of a unit.  A host mesh  *)
(* has no parent: a local point x of it is at position + scaling * x.  An  *)
(* outline mesh holds the vertices of its source; with a parent, its local *)
(* position and scaling are applied first and the transform of the parent  *)
(* after them.                                                             *)
(***************************************************************************)
Pivot(m) == 10000 * geometry[m].position

HostPoint(m, x) == Pivot(m) + 100 * geometry[m].scaling * x

OutlinePoint(o, x) ==
    IF o.parent = NoMesh
    THEN 10000 * o.position + 100 * o.scaling * x
    ELSE Pivot(o.parent)
           + geometry[o.parent].scaling * (100 * o.position + o.scaling * x)

HostExtent(m) ==
    [lo |-> HostPoint(m, geometry[m].lo), hi |-> HostPoint(m, geometry[m].hi)]

OutlineExtent(o) ==
    [lo |-> OutlinePoint(o, geometry[o.source].lo),
     hi |-> OutlinePoint(o, geometry[o.source].hi)]

(***************************************************************************)
(* The host moves the selected mesh; no frame has been rendered since.     *)
(***************************************************************************)
HostMoveMesh(m, p) ==
    /\ m \in {currentSelectedMesh, perfect.currentSelectedMesh}
    /\ inScene[m]
    /\ p # geometry[m].position
    /\ geometry' = [geometry EXCEPT ![m].position = p]
    /\ perfect' = [perfect EXCEPT !.rendered = FALSE]
    /\ UNCHANGED <<className, lodLevels, meshId, renderingGroupId, inScene,
                   currentSelectedMesh, outlineMeshes, outlineMaterials,
                   originalRenderingGroups, outlineColor, outlineScale,
                   sceneOutlineMeshes, sceneOutlineMaterials, last, toolVars>>

(***************************************************************************)
(* The engine in scenes of meshes that have a place and a size: meshes     *)
(* with unique ids in the default rendering group, whose vertex data can   *)
(* be copied.                                                              *)
(***************************************************************************)
InitGeom ==
    /\ InitOutline
    /\ UniqueIdTable(meshId)
    /\ \A m \in Meshes : className[m] = "Mesh" /\ renderingGroupId[m] = 0
    /\ geometry \in GeometryTables
    /\ perfect = NewPerfect
    /\ InitTools

NextGeom ==
    \/ \E mesh \in MeshOrNull : SetOutlineMesh(mesh, {})
    \/ \E scale \in Scales : UpdateOutlineScale(scale)
    \/ \E m \in Meshes : \E p \in Positions : HostMoveMesh(m, p)

SpecGeom == InitGeom /\ [][NextGeom]_vars

(***************************************************************************)
(* The clone-based Outline.  Its fields are the record perfect; P is the   *)
(* state a call works on: the list of outline meshes, the rendering groups *)
(* of the host, the number of outline meshes in the scene and the log.     *)
(***************************************************************************)
PerfectState ==
    [meshes |-> perfect.outlineMeshes, rg |-> renderingGroupId,
     nMeshes |-> perfect.sceneOutlineMeshes, log |-> EmptyLog]

\* Mesh.clone(name): a new mesh of the scene with the vertices, the
\* transform and the rendering group of the mesh it is cloned from.
CloneMesh(P, sourceMesh) ==
    [source |-> sourceMesh, original |-> NoMesh,
     position |-> geometry[sourceMesh].position,
     scaling |-> geometry[sourceMesh].scaling,
     renderingGroupId |-> P.rg[sourceMesh],
     shared |-> FALSE, disposed |-> FALSE]

(***************************************************************************)
(* Outline._configurePerfectOutlineMesh: the clone gets the absolute       *)
(* position of the original, its scaling times the thickness, the one      *)
(* material of the engine and the rendering group of the engine.           *)
(***************************************************************************)
ConfigurePerfectOutlineMesh(outlineMesh, originalMesh) ==
    [outlineMesh EXCEPT
       !.original = originalMesh,
       !.position = geometry[originalMesh].position,
       !.scaling = (geometry[originalMesh].scaling * perfect.outlineThickness)
                      \div 100,
       !.shared = TRUE,
       !.renderingGroupId = perfect.renderingGroupId]

\* The forEach over getLODLevels() of _createPerfectOutlineForMesh: each
\* clone of a LOD mesh is configured after the selected mesh.
RECURSIVE CreatePerfectLodOutlines(_, _, _, _)
CreatePerfectLodOutlines(P, effectiveMesh, lods, failing) ==
    IF lods = <<>> THEN P
    ELSE
        LET lod == Head(lods)
        IN  IF lod # NoMesh /\ IsMesh(lod) /\ lod \notin failing
            THEN CreatePerfectLodOutlines(
                    [P EXCEPT
                       !.meshes = Append(@, ConfigurePerfectOutlineMesh(
                                               CloneMesh(P, lod), effectiveMesh)),
                       !.nMeshes = @ + 1,
                       !.log.createdMeshes = @ + 1],
                    effectiveMesh, Tail(lods), failing)
            ELSE CreatePerfectLodOutlines(
                    IF lod # NoMesh /\ IsMesh(lod)
                    THEN [P EXCEPT !.log.failed = @ \cup {lod}]
                    ELSE P,
                    effectiveMesh, Tail(lods), failing)

(***************************************************************************)
(* Outline._createPerfectOutlineForMesh.  The mesh is put in rendering     *)
(* group 0 before it is cloned.                                            *)
(***************************************************************************)
CreatePerfectOutlineForMesh(P, mesh, failing) ==
    LET effectiveMesh == IF IsInstancedMesh(mesh) THEN SourceMesh(mesh) ELSE mesh
    IN  IF ~IsMesh(effectiveMesh) THEN P
        ELSE
            LET P1 == [P EXCEPT !.rg[effectiveMesh] = 0,
                                !.log.assigned = @ \cup {effectiveMesh}]
            IN  IF effectiveMesh \in failing
                THEN [P1 EXCEPT !.log.failed = @ \cup {effectiveMesh}]
                ELSE
                    LET P2 == [P1 EXCEPT
                                 !.meshes = Append(@, ConfigurePerfectOutlineMesh(
                                               CloneMesh(P1, effectiveMesh),
                                               effectiveMesh)),
                                 !.nMeshes = @ + 1,
                                 !.log.createdMeshes = @ + 1]
                    IN  CreatePerfectLodOutlines(P2, effectiveMesh,
                                                 lodLevels[effectiveMesh], failing)

(***************************************************************************)
(* Outline._clearOutline of the clone-based engine: the outline meshes are *)
(* disposed and the list is emptied.                                       *)
(***************************************************************************)
PerfectClearOutline(P) ==
    [P EXCEPT !.nMeshes = @ - NumLive(P.meshes),
              !.log.disposedMeshes = @ + Len(P.meshes),
              !.meshes = <<>>]

PerfectCallRecord(op, arg, P) ==
    [op |-> op, arg |-> arg,
     before |-> renderingGroupId,
     style |-> <<outlineColor, outlineScale>>,
     idle |-> perfect.outlineMeshes = <<>>,
     log |-> P.log]

outlineVars ==
    <<className, lodLevels, meshId, inScene, geometry, currentSelectedMesh,
      outlineMeshes, outlineMaterials, originalRenderingGroups, outlineColor,
      outlineScale, sceneOutlineMeshes, sceneOutlineMaterials, toolVars>>

(***************************************************************************)
(* setOutlineMesh(mesh) of the clone-based engine.  failing is the set of  *)
(* meshes whose clone() returns null during this call.                     *)
(***************************************************************************)
PerfectSetOutlineMesh(mesh, failing) ==
    /\ mesh # NoMesh => inScene[mesh]
    /\ failing \subseteq Extracted(mesh)
    /\ LET P1 == PerfectClearOutline(PerfectState)
           P2 == IF mesh # NoMesh /\ IsMesh(mesh)
                 THEN CreatePerfectOutlineForMesh(P1, mesh, failing)
                 ELSE P1
       IN  /\ perfect' = [perfect EXCEPT
                            !.outlineMeshes = P2.meshes,
                            !.sceneOutlineMeshes = P2.nMeshes,
                            !.rendered = FALSE,
                            !.currentSelectedMesh = mesh]
           /\ renderingGroupId' = P2.rg
           /\ last' = PerfectCallRecord("setOutlineMesh", mesh, P2)
    /\ UNCHANGED outlineVars

(***************************************************************************)
(* dispose() of the clone-based engine.                                    *)
(***************************************************************************)
PerfectDispose ==
    /\ LET P1 == PerfectClearOutline(PerfectState)
       IN  /\ perfect' = [perfect EXCEPT
                            !.outlineMeshes = P1.meshes,
                            !.sceneOutlineMeshes = P1.nMeshes,
                            !.materialDisposed = TRUE,
                            !.rendered = FALSE,
                            !.currentSelectedMesh = NoMesh]
           /\ renderingGroupId' = P1.rg
           /\ last' = PerfectCallRecord("dispose", NoMesh, P1)
    /\ UNCHANGED outlineVars

(***************************************************************************)
(* updateOutlinePosition() of the clone-based engine: every outline mesh   *)
(* gets the absolute position of the selected mesh and its scaling times   *)
(* the thickness.  The caller invokes it; the engine never does.           *)
(***************************************************************************)
UpdateOutlinePosition ==
    /\ perfect' =
          [perfect EXCEPT
             !.rendered = FALSE,
             !.outlineMeshes =
                IF perfect.currentSelectedMesh # NoMesh
                     /\ IsMesh(perfect.currentSelectedMesh)
                THEN [i \in DOMAIN @ |->
                        [@[i] EXCEPT
                           !.position =
                              geometry[perfect.currentSelectedMesh].position,
                           !.scaling =
                              (geometry[perfect.currentSelectedMesh].scaling
                                 * perfect.outlineThickness) \div 100]]
                ELSE @]
    /\ last' = PerfectCallRecord("updateOutlinePosition", NoMesh, PerfectState)
    /\ UNCHANGED <<renderingGroupId, outlineVars>>

(***************************************************************************)
(* updateOutlineThickness(thickness) of the clone-based engine: the field  *)
(* is set and, when a Mesh is selected, every outline mesh gets the        *)
(* scaling of the selected mesh times the thickness.                       *)
(***************************************************************************)
Thicknesses == {DefaultOutlineThickness, 110}

UpdateOutlineThickness(thickness) ==
    /\ perfect' =
          [perfect EXCEPT
             !.rendered = FALSE,
             !.outlineThickness = thickness,
             !.outlineMeshes =
                IF perfect.currentSelectedMesh # NoMesh
                     /\ IsMesh(perfect.currentSelectedMesh)
                THEN [i \in DOMAIN @ |->
                        [@[i] EXCEPT
                           !.scaling =
                              (geometry[perfect.currentSelectedMesh].scaling
                                 * thickness) \div 100]]
                ELSE @]
    /\ last' = PerfectCallRecord("updateOutlineThickness", NoMesh, PerfectState)
    /\ UNCHANGED <<renderingGroupId, outlineVars>>

(***************************************************************************)
(* The scene renders a frame: the observers of onBeforeRenderObservable    *)
(* run first.  The constructor of the clone-based engine adds none, so no  *)
(* field of the engine and no outline mesh changes.                        *)
(***************************************************************************)
RenderFrame ==
    /\ ~perfect.rendered
    /\ perfect' = [perfect EXCEPT !.rendered = TRUE]
    /\ UNCHANGED <<renderingGroupId, last, outlineVars>>

NextPerfect ==
    \/ \E mesh \in MeshOrNull : \E failing \in SUBSET Meshes :
          PerfectSetOutlineMesh(mesh, failing)
    \/ PerfectDispose
    \/ UpdateOutlinePosition
    \/ \E thickness \in Thicknesses : UpdateOutlineThickness(thickness)
    \/ RenderFrame
    \/ \E m \in Meshes : \E p \in Positions : HostMoveMesh(m, p)

\* The clone-based engine never looks a mesh up by its id: its scenes give
\* every mesh an id of its own.
InitPerfect ==
    /\ Init
    /\ UniqueIdTable(meshId)

SpecPerfect == InitPerfect /\ [][NextPerfect]_vars

(***************************************************************************)
(* tools/mixed-reality.ts.  M is the value of mr a function works on.      *)
(*                                                                         *)
(* _injectVRPolyfills: navigator.xr, getVRDisplays and requestVRDisplay    *)
(* get a polyfill when they are undefined; _patchWebGLContexts wraps       *)
(* console.error; _overrideWebXRDetection wraps navigator.xr.requestSession*)
(* and replaces navigator.getVRDisplays by a wrapper.  An assignment to a  *)
(* property of navigator that the host made read-only throws (throwAt),    *)
(* and the function rethrows what it catches.  _overrideWebXRDetection     *)
(* swallows what it catches: when the host has a read-only getVRDisplays   *)
(* of its own, the assignment of the wrapper throws ("override") and the   *)
(* wrapper of requestSession, which comes after it, is not installed.      *)
(* _injectAggressivePolyfills and _injectNullSafetyPatches swallow what    *)
(* they catch too: when the host has a read-only, non-configurable         *)
(* navigator.xr of its own, the redefinition and the assignment of         *)
(* navigator.xr throw ("nullSafety") and the wrapper of requestSession of  *)
(* _injectNullSafetyPatches, which comes after the assignment, is not      *)
(* installed.  A host can have both read-only properties.                  *)
(***************************************************************************)
ThrowPoints ==
    {"none", "xr", "getVRDisplays", "requestVRDisplay", "override",
     "nullSafety", "overrideNullSafety"}

\* The throw points whose exception MixedRealityEnabled rethrows.
RethrownThrowPoints == {"xr", "getVRDisplays", "requestVRDisplay"}

OverrideThrows(throwAt) == throwAt \in {"override", "overrideNullSafety"}

NullSafetyThrows(throwAt) == throwAt \in {"nullSafety", "overrideNullSafety"}

OverrideWebXRDetection(M, throwAt) ==
    IF OverrideThrows(throwAt) /\ M.navigator.getVRDisplays.impl = "native"
    THEN M
    ELSE [M EXCEPT !.navigator.xr.wraps = @ + 1,
                   !.navigator.getVRDisplays.wraps = @ + 1]

\* _overrideWebXRDetection has installed its wrapper of requestSession: it
\* does so right after it has replaced getVRDisplays, which nothing else
\* wraps.
OverrideInstalled(M) == M.navigator.getVRDisplays.wraps > 0

InjectVRPolyfills(M, throwAt) ==
    LET M1 == [M EXCEPT !.injections.vr = @ + 1]
    IN  IF M1.navigator.xr.impl = "undefined" /\ throwAt = "xr"
        THEN [m |-> M1, thrown |-> TRUE]
        ELSE
            LET M2 == [M1 EXCEPT
                         !.navigator.xr.impl =
                            IF @ = "undefined" THEN "polyfill" ELSE @,
                         !.consoleErrorWraps = @ + 1]
            IN  IF M2.navigator.getVRDisplays.impl = "undefined"
                     /\ throwAt = "getVRDisplays"
                THEN [m |-> M2, thrown |-> TRUE]
                ELSE
                    LET M3 == [M2 EXCEPT
                                 !.navigator.getVRDisplays.impl =
                                    IF @ = "undefined" THEN "polyfill" ELSE @]
                    IN  IF M3.navigator.requestVRDisplay.impl = "undefined"
                             /\ throwAt = "requestVRDisplay"
                        THEN [m |-> M3, thrown |-> TRUE]
                        ELSE
                            LET M4 == [M3 EXCEPT
                                         !.navigator.requestVRDisplay.impl =
                                            IF @ = "undefined" THEN "polyfill"
                                                               ELSE @]
                            IN  [m |-> OverrideWebXRDetection(M4, throwAt),
                                 thrown |-> FALSE]

\* _injectAdditionalPolyfills, _injectAggressivePolyfills,
\* _injectNullSafetyPatches and _fixDOMBindingIssues: each catches what it
\* throws.  The first wraps navigator.xr.requestSession and the second
\* console.error, before anything of them can throw; the third wraps
\* requestSession after it has assigned navigator.xr, unless that
\* assignment throws.
InjectOtherPolyfills(M, throwAt) ==
    LET skipped == NullSafetyThrows(throwAt) /\ M.navigator.xr.impl = "native"
    IN  [M EXCEPT !.injections.additional = @ + 1,
                  !.navigator.xr.wraps = IF skipped THEN @ + 1 ELSE @ + 2,
                  !.injections.aggressive = @ + 1,
                  !.consoleErrorWraps = @ + 1,
                  !.injections.nullSafety = @ + 1,
                  !.nullSafetyWraps = IF skipped THEN @ ELSE @ + 1,
                  !.injections.domBinding = @ + 1]

\* _injectNullSafetyPatches has installed its wrapper of requestSession.
NullSafetyInstalled(M) == M.nullSafetyWraps > 0

\* A call of MixedRealityEnabled: where it is, and the XR helper it got.
EnableCall(pc) == [pc |-> pc, xrHelper |-> FALSE]

Awaiting(call) == call.pc \in {"sleep", "create", "alternative"}

\* Variant: the catch block of MixedRealityEnabled does not reset
\* isVRSimulationEnabled.
MixedRealityEnabledNoRollback(M, valid, throwAt) ==
    IF M.isVRSimulationEnabled
    THEN [M EXCEPT !.calls = Append(@, EnableCall("guard"))]
    ELSE IF ~valid
    THEN [M EXCEPT !.calls = Append(@, EnableCall("invalid"))]
    ELSE
        LET M1 == [M EXCEPT
                     !.isVRSimulationEnabled = TRUE,
                     !.vrHeadsetCube = TRUE,
                     !.originalWebXR =
                        IF @ = <<>> THEN <<M.navigator>> ELSE @]
        IN  IF ~M1.polyfillInjected
            THEN
                LET r == InjectVRPolyfills(M1, throwAt)
                IN  IF r.thrown
                    THEN [r.m EXCEPT
                            !.vrHeadsetCube = FALSE,
                            !.calls = Append(@, EnableCall("thrown"))]
                    ELSE [InjectOtherPolyfills(r.m, throwAt) EXCEPT
                            !.polyfillInjected = TRUE,
                            !.calls = Append(@, EnableCall("sleep"))]
            ELSE [M1 EXCEPT !.calls = Append(@, EnableCall("create"))]

(***************************************************************************)
(* MixedRealityEnabled(scene, cube) up to its first await.  valid: scene   *)
(* and cube are given.  The call ends at the guard, at the validation or   *)
(* in the catch block (which resets the flag and the cube and rethrows),   *)
(* or it is suspended: for 100 ms after the first injection of the         *)
(* polyfills, in WebXRDefaultExperience.CreateAsync otherwise.             *)
(***************************************************************************)
MixedRealityEnabled(M, valid, throwAt) ==
    IF M.isVRSimulationEnabled
    THEN [M EXCEPT !.calls = Append(@, EnableCall("guard"))]
    ELSE IF ~valid
    THEN [M EXCEPT !.calls = Append(@, EnableCall("invalid"))]
    ELSE
        LET M1 == [M EXCEPT
                     !.isVRSimulationEnabled = TRUE,
                     !.vrHeadsetCube = TRUE,
                     !.originalWebXR =
                        IF @ = <<>> THEN <<M.navigator>> ELSE @]
        IN  IF ~M1.polyfillInjected
            THEN
                LET r == InjectVRPolyfills(M1, throwAt)
                IN  IF r.thrown
                    THEN [r.m EXCEPT
                            !.isVRSimulationEnabled = FALSE,
                            !.vrHeadsetCube = FALSE,
                            !.calls = Append(@, EnableCall("thrown"))]
                    ELSE [InjectOtherPolyfills(r.m, throwAt) EXCEPT
                            !.polyfillInjected = TRUE,
                            !.calls = Append(@, EnableCall("sleep"))]
            ELSE [M1 EXCEPT !.calls = Append(@, EnableCall("create"))]

\* The end of MixedRealityEnabled: the camera observer is added to
\* scene.onBeforeRenderObservable and scene._vrSimulation is set.
RegisterObserver(M, i, helper) ==
    LET id == M.observersAdded + 1
    IN  [M EXCEPT !.observersAdded = id,
                  !.observers = @ \cup {id},
                  !.vrUpdateObserver = id,
                  !.vrSimulation = <<[xrHelper |-> helper, updateObserver |-> id]>>,
                  !.calls[i] = [pc |-> "done", xrHelper |-> helper]]

(***************************************************************************)
(* A suspended call of MixedRealityEnabled goes on after its await.  ok:   *)
(* CreateAsync resolved; otherwise the alternative experience is awaited.  *)
(***************************************************************************)
MixedRealityEnabledResume(M, i, ok) ==
    CASE M.calls[i].pc = "sleep" -> [M EXCEPT !.calls[i].pc = "create"]
      [] M.calls[i].pc = "create" ->
            IF ok THEN RegisterObserver(M, i, TRUE)
            ELSE [M EXCEPT !.calls[i].pc = "alternative"]
      [] M.calls[i].pc = "alternative" -> RegisterObserver(M, i, TRUE)

(***************************************************************************)
(* MixedRealityDisabled(scene).  sceneAvailable: the argument is a scene.  *)
(* With null the removal of the observer throws and is caught, and the     *)
(* read of scene._vrSimulation throws into the outer catch: the observer   *)
(* and _vrSimulation stay on the scene the simulation was enabled on.      *)
(***************************************************************************)
MixedRealityDisabled(M, sceneAvailable) ==
    IF ~M.isVRSimulationEnabled THEN M
    ELSE IF sceneAvailable
    THEN [M EXCEPT
            !.isVRSimulationEnabled = FALSE,
            !.vrHeadsetCube = FALSE,
            !.observers = @ \ {M.vrUpdateObserver},
            !.vrUpdateObserver = 0,
            !.vrSimulation = <<>>]
    ELSE [M EXCEPT
            !.isVRSimulationEnabled = FALSE,
            !.vrHeadsetCube = FALSE,
            !.vrUpdateObserver = 0]

\* The editor calls MixedRealityEnabled.
EnableStep(valid, throwAt) ==
    /\ Len(mr.calls) < MaxEnableCalls
    /\ throwAt = "xr" => mr.navigator.xr.impl = "undefined"
    /\ throwAt = "getVRDisplays" => mr.navigator.getVRDisplays.impl = "undefined"
    /\ throwAt = "requestVRDisplay" =>
           mr.navigator.requestVRDisplay.impl = "undefined"
    /\ OverrideThrows(throwAt) => mr.navigator.getVRDisplays.impl = "native"
    /\ NullSafetyThrows(throwAt) => mr.navigator.xr.impl = "native"
    /\ throwAt # "none" => valid /\ ~mr.isVRSimulationEnabled /\ ~mr.polyfillInjected
    /\ mr' = MixedRealityEnabled(mr, valid, throwAt)
    /\ UNCHANGED <<component, session>>
    /\ UNCHANGED <<className, lodLevels, meshId, renderingGroupId, inScene,
                   currentSelectedMesh, outlineMeshes, outlineMaterials,
                   originalRenderingGroups, outlineColor, outlineScale,
                   sceneOutlineMeshes, sceneOutlineMaterials, last, geometry,
                   perfect>>

\* The event loop resumes a suspended call of MixedRealityEnabled.
ResumeStep(i, ok) ==
    /\ i \in DOMAIN mr.calls
    /\ Awaiting(mr.calls[i])
    /\ ~ok => mr.calls[i].pc = "create"
    /\ mr' = MixedRealityEnabledResume(mr, i, ok)
    /\ UNCHANGED <<component, session>>
    /\ UNCHANGED <<className, lodLevels, meshId, renderingGroupId, inScene,
                   currentSelectedMesh, outlineMeshes, outlineMaterials,
                   originalRenderingGroups, outlineColor, outlineScale,
                   sceneOutlineMeshes, sceneOutlineMaterials, last, geometry,
                   perfect>>

\* The editor calls MixedRealityDisabled: with the scene it gave to
\* MixedRealityEnabled (sceneAvailable), or with null.
DisableStep(sceneAvailable) ==
    /\ mr' = MixedRealityDisabled(mr, sceneAvailable)
    /\ UNCHANGED <<component, session>>
    /\ UNCHANGED <<className, lodLevels, meshId, renderingGroupId, inScene,
                   currentSelectedMesh, outlineMeshes, outlineMaterials,
                   originalRenderingGroups, outlineColor, outlineScale,
                   sceneOutlineMeshes, sceneOutlineMaterials, last, geometry,
                   perfect>>

(***************************************************************************)
(* The module in a host with any navigator, called by an editor that does  *)
(* not wait for MixedRealityEnabled to finish.                             *)
(***************************************************************************)
InitMixedReality ==
    /\ InitOutline
    /\ UniqueIdTable(meshId)
    /\ \A m \in Meshes : className[m] = "Mesh" /\ renderingGroupId[m] = 0
    /\ lodLevels = [m \in Meshes |-> <<>>]
    /\ geometry = [m \in Meshes |-> DefaultGeometry]
    /\ perfect = NewPerfect
    /\ mr \in {NewMixedReality(nav) : nav \in HostNavigators}
    /\ component = NewComponent
    /\ session = NoSession

NextMixedReality ==
    \/ \E valid \in BOOLEAN : \E throwAt \in ThrowPoints :
          EnableStep(valid, throwAt)
    \/ \E i \in 1..MaxEnableCalls : \E ok \in BOOLEAN : ResumeStep(i, ok)
    \/ \E sceneAvailable \in BOOLEAN : DisableStep(sceneAvailable)

SpecMixedReality == InitMixedReality /\ [][NextMixedReality]_vars

(***************************************************************************)
(* navigator.xr.requestSession after the polyfills.  A session is the      *)
(* part of the mock session that concerns features: enabledFeatures is the *)
(* array, requestedFeatures is <<>> while the property is absent and       *)
(* <<list>> once set, featureTest says which list isFeatureEnabled reads:  *)
(* the literal of _createMockXRSession or the session's enabledFeatures,   *)
(* getUniqueId which function gave the session its getUniqueId.            *)
(***************************************************************************)
MaxRequired == 2

BaseFeatures == <<"local", "local-floor", "bounded-floor", "hand-tracking">>

Features ==
    {BaseFeatures[i] : i \in DOMAIN BaseFeatures}
        \cup {"hit-test", "anchors", "plane-detection"}

FeatureLists == UNION {[1..n -> Features] : n \in 0..MaxRequired}

SessionTypes == {"immersive-vr", "immersive-ar"}

\* options: undefined or without requiredFeatures, or with the array.
NoOptions == [hasRequired |-> FALSE, requiredFeatures |-> <<>>]

SessionOptions ==
    {NoOptions} \cup {[hasRequired |-> TRUE, requiredFeatures |-> l] :
                         l \in FeatureLists}

Includes(list, f) == \E i \in DOMAIN list : list[i] = f

CreateMockXRSession(sessionType) ==
    [sessionType |-> sessionType,
     enabledFeatures |-> BaseFeatures,
     requestedFeatures |-> <<>>,
     featureTest |-> "literal",
     getUniqueId |-> "vr-simulation-session"]

\* The loop that pushes every required feature that enabledFeatures lacks.
RECURSIVE PushMissing(_, _)
PushMissing(enabled, required) ==
    IF required = <<>>
    THEN enabled
    ELSE PushMissing(IF Includes(enabled, Head(required))
                     THEN enabled
                     ELSE Append(enabled, Head(required)),
                     Tail(required))

\* session.isFeatureEnabled(f) is true: the method of the mock session
\* tests a literal list, the one added by _injectAdditionalPolyfills reads
\* enabledFeatures, and a session of the browser has no such method.
IsFeatureEnabled(s, f) ==
    CASE s.featureTest = "literal" -> Includes(BaseFeatures, f)
      [] s.featureTest = "enabledFeatures" -> Includes(s.enabledFeatures, f)
      [] OTHER -> FALSE

\* What the requestSession of the browser does for an immersive type: it
\* rejects, it resolves with null, or it resolves with a session that has
\* or lacks enabledFeatures and has or lacks getUniqueId.
NativeOutcomes ==
    {"rejects", "null", "bare", "features", "id", "featuresAndId"}

\* The promise resolved with null.
NullSession ==
    [sessionType |-> "null", enabledFeatures |-> <<>>,
     requestedFeatures |-> <<>>, featureTest |-> "none",
     getUniqueId |-> "none"]

\* A session of the browser.  Its enabledFeatures, when it has the
\* property, are "local" and the required features of the options; an
\* enabledFeatures of <<>> stands for a session without the property.
NativeSession(sessionType, options, native) ==
    [sessionType |-> sessionType,
     enabledFeatures |->
        IF native \in {"features", "featuresAndId"}
        THEN PushMissing(<<"local">>, options.requiredFeatures)
        ELSE <<>>,
     requestedFeatures |-> <<>>,
     featureTest |-> "none",
     getUniqueId |->
        IF native \in {"id", "featuresAndId"} THEN "native" ELSE "none"]

\* The wrapper installed by _overrideWebXRDetection, for the immersive types.
OverrideRequestSession(sessionType, options) ==
    LET s == CreateMockXRSession(sessionType)
    IN  IF options.hasRequired
        THEN [s EXCEPT
                !.requestedFeatures = <<options.requiredFeatures>>,
                !.enabledFeatures = PushMissing(@, options.requiredFeatures)]
        ELSE s

\* The requestSession that _injectAdditionalPolyfills wraps: the wrapper of
\* _overrideWebXRDetection when it is installed, else the polyfill of
\* _injectVRPolyfills, which ignores the options, or the browser's own.
\* thrown: the promise rejects.
InnerRequestSession(M, sessionType, options, native) ==
    IF OverrideInstalled(M)
    THEN [thrown |-> FALSE, s |-> OverrideRequestSession(sessionType, options)]
    ELSE IF M.navigator.xr.impl = "polyfill"
    THEN [thrown |-> FALSE, s |-> CreateMockXRSession(sessionType)]
    ELSE IF native = "rejects"
    THEN [thrown |-> TRUE, s |-> NoSession]
    ELSE IF native = "null"
    THEN [thrown |-> FALSE, s |-> NullSession]
    ELSE [thrown |-> FALSE, s |-> NativeSession(sessionType, options, native)]

\* The wrapper installed on top of it by _injectAdditionalPolyfills: null
\* is returned as it is, a session gets the enabledFeatures and the
\* getUniqueId it lacks, and a rejection is answered by a new mock session.
AdditionalRequestSession(M, sessionType, options, native) ==
    LET r == InnerRequestSession(M, sessionType, options, native)
    IN  IF r.thrown
        THEN CreateMockXRSession(sessionType)
        ELSE IF r.s = NullSession
        THEN NullSession
        ELSE
            LET s1 == IF r.s.enabledFeatures = <<>>
                      THEN [r.s EXCEPT !.enabledFeatures = BaseFeatures,
                                       !.featureTest = "enabledFeatures"]
                      ELSE r.s
            IN  IF s1.getUniqueId = "none"
                THEN [s1 EXCEPT !.getUniqueId = "vr-patched-session"]
                ELSE s1

\* The wrapper installed on top of that by _injectNullSafetyPatches: a
\* result that is not null and has no getUniqueId gets one.
NullSafetyRequestSession(M, sessionType, options, native) ==
    LET s == AdditionalRequestSession(M, sessionType, options, native)
    IN  IF s # NullSession /\ s.getUniqueId = "none"
        THEN [s EXCEPT !.getUniqueId = "vr-safe"]
        ELSE s

\* navigator.xr.requestSession after the injection: the outermost wrapper
\* that was installed.
PolyfilledRequestSession(M, sessionType, options, native) ==
    IF NullSafetyInstalled(M)
    THEN NullSafetyRequestSession(M, sessionType, options, native)
    ELSE AdditionalRequestSession(M, sessionType, options, native)

\* The first call of MixedRealityEnabled injects the polyfills.
InjectStep(throwAt) ==
    /\ mr.calls = <<>>
    /\ throwAt \notin RethrownThrowPoints
    /\ EnableStep(TRUE, throwAt)

\* native matters only when the call reaches the requestSession of the
\* browser.
RequestSession(sessionType, options, native) ==
    /\ mr.polyfillInjected
    /\ (OverrideInstalled(mr) \/ mr.navigator.xr.impl = "polyfill")
          => native = "bare"
    /\ session' = PolyfilledRequestSession(mr, sessionType, options, native)
    /\ UNCHANGED <<mr, component>>
    /\ UNCHANGED <<className, lodLevels, meshId, renderingGroupId, inScene,
                   currentSelectedMesh, outlineMeshes, outlineMaterials,
                   originalRenderingGroups, outlineColor, outlineScale,
                   sceneOutlineMeshes, sceneOutlineMaterials, last, geometry,
                   perfect>>

NextSession ==
    \/ \E throwAt \in ThrowPoints : InjectStep(throwAt)
    \/ \E sessionType \in SessionTypes : \E options \in SessionOptions :
          \E native \in NativeOutcomes :
             RequestSession(sessionType, options, native)

SpecSession == InitMixedReality /\ [][NextSession]_vars

(***************************************************************************)
(* MixedRealityComponent.  lifecycle: constructed, mounted, unmounted.     *)
(* canvas: the document has the element mixed-reality-canvas (the host     *)
(* decides).  engine: none, running, disposed.  initTimers: the pending    *)
(* timers that call _initializeEngine; initRuns counts its executions and  *)
(* lateInit what it did after componentWillUnmount.  previewVr: the value  *)
(* given to preview.setVrSimulationEnabled.  window.onerror and            *)
(* window.onunhandledrejection: 0 is the handler of the host, k the        *)
(* wrapper installed by the k-th enabling.  restoreTimers: the pending     *)
(* 10 second timers, each with the pair of handlers it puts back and the   *)
(* call of MixedRealityEnabled that follows it; equal delays fire in the   *)
(* order of their creation.  invocations: the calls of                     *)
(* _handleEnableVrSimulation, each with its constant enabled, its position *)
(* and the call of MixedRealityEnabled it awaits.                          *)
(***************************************************************************)
MaxInitRuns == 4
MaxClicks == 3

\* setState and what _initializeEngine creates, counted after unmount.
LateInit(C, setStates, engines) ==
    IF C.lifecycle = "unmounted"
    THEN [C EXCEPT !.lateInit.runs = @ + 1,
                   !.lateInit.setStates = @ + setStates,
                   !.lateInit.engines = @ + engines]
    ELSE C

\* Where the second try block of _initializeEngine throws: nowhere, before
\* the VRHeadset is created (new Scene, the camera, the light) or after it
\* (runRenderLoop, window.addEventListener).
SceneThrowPoints == {"none", "scene", "renderLoop"}

InitializeEngine(C, engineOk, sceneThrow, headsetOk) ==
    LET C1 == [C EXCEPT !.initRuns = @ + 1]
    IN  IF ~C1.canvas
        THEN LateInit([C1 EXCEPT !.canvasError = TRUE,
                                 !.initTimers = @ + 1], 1, 0)
        ELSE IF ~engineOk /\ C1.engine = "none"
        THEN LateInit([C1 EXCEPT !.canvasError = TRUE], 2, 0)
        ELSE
            LET C2 == [C1 EXCEPT !.engine = IF engineOk THEN "running" ELSE @]
                engines == IF engineOk THEN 1 ELSE 0
            IN  IF sceneThrow = "scene"
                THEN LateInit([C2 EXCEPT !.canvasReady = FALSE,
                                         !.canvasError = TRUE], 2, engines)
                ELSE
                    LET C3 == [C2 EXCEPT
                                 !.vrHeadset = IF headsetOk THEN TRUE ELSE @]
                        setStates == IF headsetOk THEN 2 ELSE 3
                    IN  IF sceneThrow = "renderLoop"
                        THEN LateInit([C3 EXCEPT !.canvasReady = FALSE,
                                                 !.canvasError = TRUE],
                                      setStates, engines)
                        ELSE LateInit([C3 EXCEPT !.canvasReady = TRUE,
                                                 !.canvasError = FALSE],
                                      setStates, engines)

ComponentDidMount(C, engineOk, sceneThrow, headsetOk) ==
    LET C1 == [C EXCEPT !.lifecycle = "mounted"]
    IN  IF ~C1.canvas
        THEN [C1 EXCEPT !.initTimers = @ + 1]
        ELSE InitializeEngine(C1, engineOk, sceneThrow, headsetOk)

ComponentWillUnmount(C) ==
    [C EXCEPT !.lifecycle = "unmounted",
              !.engine = IF @ = "running" THEN "disposed" ELSE @]

\* The variables of the scenes and of the module, which the lifecycle of the
\* component leaves alone.
lifecycleFrame ==
    <<className, lodLevels, meshId, renderingGroupId, inScene,
      currentSelectedMesh, outlineMeshes, outlineMaterials,
      originalRenderingGroups, outlineColor, outlineScale,
      sceneOutlineMeshes, sceneOutlineMaterials, last, geometry, perfect,
      mr, session>>

\* The host adds the canvas element to the document or removes it.
HostCanvas(present) ==
    /\ component.canvas # present
    /\ component' = [component EXCEPT !.canvas = present]
    /\ UNCHANGED lifecycleFrame

MountStep(engineOk, sceneThrow, headsetOk) ==
    /\ component.lifecycle = "constructed"
    /\ component' = ComponentDidMount(component, engineOk, sceneThrow, headsetOk)
    /\ UNCHANGED lifecycleFrame

\* A pending timer of componentDidMount or _initializeEngine fires.
InitTimerStep(engineOk, sceneThrow, headsetOk) ==
    /\ component.initTimers > 0
    /\ component.initRuns < MaxInitRuns
    /\ component' = InitializeEngine(
                        [component EXCEPT !.initTimers = @ - 1],
                        engineOk, sceneThrow, headsetOk)
    /\ UNCHANGED lifecycleFrame

UnmountStep ==
    /\ component.lifecycle = "mounted"
    /\ component' = ComponentWillUnmount(component)
    /\ UNCHANGED lifecycleFrame

NextLifecycle ==
    \/ \E present \in BOOLEAN : HostCanvas(present)
    \/ \E engineOk, headsetOk \in BOOLEAN : \E sceneThrow \in SceneThrowPoints :
          MountStep(engineOk, sceneThrow, headsetOk)
    \/ \E engineOk, headsetOk \in BOOLEAN : \E sceneThrow \in SceneThrowPoints :
          InitTimerStep(engineOk, sceneThrow, headsetOk)
    \/ UnmountStep

SpecLifecycle == InitMixedReality /\ [][NextLifecycle]_vars

(***************************************************************************)
(* _handleEnableVrSimulation up to its await, or to its end when it does   *)
(* not reach the await.  sceneAvailable: the preview has a scene.  The     *)
(* result is the component and the module.                                 *)
(***************************************************************************)
Invocation(enabled, pc, call) == [enabled |-> enabled, pc |-> pc, call |-> call]

HandleEnableVrSimulation(C, M, sceneAvailable, throwAt) ==
    IF ~C.isVrEnabled
    THEN
        IF ~sceneAvailable \/ ~C.vrHeadset
        THEN [c |-> [C EXCEPT
                       !.isVrEnabled = TRUE,
                       !.invocations = Append(@, Invocation(TRUE, "failed", 0))],
              m |-> M]
        ELSE
            LET k == C.wrappers + 1
                M1 == MixedRealityEnabled(M, TRUE, throwAt)
            IN  [c |-> [C EXCEPT
                          !.wrappers = k,
                          !.restoreTimers =
                              Append(@, <<C.onerror, C.onunhandledrejection,
                                          Len(M1.calls)>>),
                          !.onerror = k,
                          !.onunhandledrejection = k,
                          !.invocations =
                              Append(@, Invocation(TRUE, "await", Len(M1.calls)))],
                 m |-> M1]
    ELSE [c |-> [C EXCEPT
                   !.previewVr = FALSE,
                   !.isVrEnabled = FALSE,
                   !.invocations =
                       Append(@, Invocation(FALSE,
                                            IF C.vrHeadset THEN "done"
                                                           ELSE "failed", 0))],
          m |-> MixedRealityDisabled(M, sceneAvailable)]

\* The invocation goes on after await MixedRealityEnabled, whether the call
\* returned or threw.
HandleEnableVrSimulationResume(C, j) ==
    [C EXCEPT !.previewVr = TRUE,
              !.isVrEnabled = TRUE,
              !.invocations[j].pc = "done"]

sceneFrame ==
    <<className, lodLevels, meshId, renderingGroupId, inScene,
      currentSelectedMesh, outlineMeshes, outlineMaterials,
      originalRenderingGroups, outlineColor, outlineScale,
      sceneOutlineMeshes, sceneOutlineMaterials, last, geometry, perfect,
      session>>

\* An invocation awaits a call of MixedRealityEnabled that has settled: its
\* continuation is a microtask, which runs before the next event or timer.
MicrotaskPending ==
    \E j \in DOMAIN component.invocations :
        /\ component.invocations[j].pc = "await"
        /\ ~Awaiting(mr.calls[component.invocations[j].call])

\* The user clicks the button of the VR simulation.
ClickStep(sceneAvailable, throwAt) ==
    /\ component.lifecycle = "mounted"
    /\ ~MicrotaskPending
    /\ Len(component.invocations) < MaxClicks
    /\ IF ~component.isVrEnabled /\ sceneAvailable /\ component.vrHeadset
       THEN /\ Len(mr.calls) < MaxEnableCalls
            /\ throwAt = "xr" => mr.navigator.xr.impl = "undefined"
            /\ throwAt = "getVRDisplays" =>
                   mr.navigator.getVRDisplays.impl = "undefined"
            /\ throwAt = "requestVRDisplay" =>
                   mr.navigator.requestVRDisplay.impl = "undefined"
            /\ OverrideThrows(throwAt) =>
                   mr.navigator.getVRDisplays.impl = "native"
            /\ NullSafetyThrows(throwAt) => mr.navigator.xr.impl = "native"
            /\ throwAt # "none" =>
                   ~mr.isVRSimulationEnabled /\ ~mr.polyfillInjected
       ELSE throwAt = "none"
    /\ LET r == HandleEnableVrSimulation(component, mr, sceneAvailable, throwAt)
       IN  component' = r.c /\ mr' = r.m
    /\ UNCHANGED sceneFrame

HandlerResumeStep(j) ==
    /\ j \in DOMAIN component.invocations
    /\ component.invocations[j].pc = "await"
    /\ ~Awaiting(mr.calls[component.invocations[j].call])
    /\ component' = HandleEnableVrSimulationResume(component, j)
    /\ UNCHANGED mr
    /\ UNCHANGED sceneFrame

\* The oldest 10 second timer fires and puts back the handlers it saved.  The
\* 100 ms timer of the call of MixedRealityEnabled made after it was started
\* has fired before.
RestoreTimerStep ==
    /\ component.restoreTimers # <<>>
    /\ ~MicrotaskPending
    /\ mr.calls[Head(component.restoreTimers)[3]].pc # "sleep"
    /\ component' = [component EXCEPT
                        !.onerror = Head(component.restoreTimers)[1],
                        !.onunhandledrejection = Head(component.restoreTimers)[2],
                        !.restoreTimers = Tail(@)]
    /\ UNCHANGED mr
    /\ UNCHANGED sceneFrame

\* The event loop resumes a suspended call of MixedRealityEnabled.
ModuleResumeStep(i, ok) ==
    /\ ~MicrotaskPending
    /\ ResumeStep(i, ok)

NextComponent ==
    \/ \E engineOk, headsetOk \in BOOLEAN : \E sceneThrow \in SceneThrowPoints :
          MountStep(engineOk, sceneThrow, headsetOk)
    \/ \E sceneAvailable \in BOOLEAN : \E throwAt \in ThrowPoints :
          ClickStep(sceneAvailable, throwAt)
    \/ \E j \in 1..MaxClicks : HandlerResumeStep(j)
    \/ \E i \in 1..MaxEnableCalls : \E ok \in BOOLEAN : ModuleResumeStep(i, ok)
    \/ RestoreTimerStep

SpecComponent == InitMixedReality /\ [][NextComponent]_vars

(***************************************************************************)
(* The module called by an editor that awaits every call before it makes   *)
(* the next one.                                                           *)
(***************************************************************************)
SequentialEnableStep(valid, throwAt) ==
    /\ \A i \in DOMAIN mr.calls : ~Awaiting(mr.calls[i])
    /\ EnableStep(valid, throwAt)

SequentialDisableStep(sceneAvailable) ==
    /\ \A i \in DOMAIN mr.calls : ~Awaiting(mr.calls[i])
    /\ DisableStep(sceneAvailable)

NextSequential ==
    \/ \E valid \in BOOLEAN : \E throwAt \in ThrowPoints :
          SequentialEnableStep(valid, throwAt)
    \/ \E i \in 1..MaxEnableCalls : \E ok \in BOOLEAN : ResumeStep(i, ok)
    \/ \E sceneAvailable \in BOOLEAN : SequentialDisableStep(sceneAvailable)

SpecSequential == InitMixedReality /\ [][NextSequential]_vars

(***************************************************************************)
(* Vocabulary of the properties.                                           *)
(***************************************************************************)
UniqueIds == \A m, k \in Meshes : m # k => meshId[m] # meshId[k]

AllInScene == \A m \in Meshes : inScene[m]

\* The step is a call setOutlineMesh(mesh).
SelectStep(mesh) == \E failing \in SUBSET Meshes : SetOutlineMesh(mesh, failing)

\* The step clears the selection: setOutlineMesh(null).
ClearStep == SetOutlineMesh(NoMesh, {})

\* The source meshes of the outline duplicates, in the order of the list.
Sources == [i \in DOMAIN outlineMeshes |-> outlineMeshes[i].source]

\* The children the engine has given a host mesh.
OutlineChildren(m) ==
    {i \in DOMAIN outlineMeshes :
        outlineMeshes[i].parent = m /\ ~outlineMeshes[i].disposed}

\* The last call was setOutlineMesh(t) for a Mesh t.
LastSelected(t) ==
    last.op = "setOutlineMesh" /\ last.arg = t /\ t # NoMesh /\ IsMesh(t)

(***************************************************************************)
(* C1: setOutlineMesh(t) on an idle engine followed by                     *)
(* setOutlineMesh(null) leaves t.renderingGroupId at its value before      *)
(* setOutlineMesh(t), and no engine-created mesh or material in the scene. *)
(***************************************************************************)
C1_CleanupCompleteness ==
    [][\A t \in Meshes :
         (LastSelected(t) /\ last.idle /\ AllInScene /\ ClearStep)
         => /\ renderingGroupId'[t] = last.before[t]
            /\ sceneOutlineMeshes' = 0
            /\ sceneOutlineMaterials' = 0]_vars

(***************************************************************************)
(* C2: after a target with LOD levels is selected and the selection is     *)
(* cleared or the engine disposed, every mesh whose rendering group the    *)
(* selection changed, each LOD level included, has the rendering group it  *)
(* had before the selection.  Stated for scenes whose ids are unique.      *)
(***************************************************************************)
C2_LodGroupsRestored ==
    [][\A t \in Meshes :
         (/\ LastSelected(t) /\ last.idle /\ AllInScene /\ UniqueIds
          /\ lodLevels[t] # <<>>
          /\ (ClearStep \/ Dispose))
         => \A m \in last.log.assigned :
               renderingGroupId'[m] = last.before[m]]_vars

(***************************************************************************)
(* C3: after any sequence of setOutlineMesh calls the outline duplicates   *)
(* all belong to the mesh passed last or to its LOD levels, there is none  *)
(* when null was passed last, and the scene holds no other engine-created  *)
(* mesh.                                                                   *)
(***************************************************************************)
C3_SingleSelection ==
    last.op = "setOutlineMesh" =>
        /\ last.arg = NoMesh => outlineMeshes = <<>>
        /\ last.arg # NoMesh =>
              \A i \in DOMAIN outlineMeshes :
                 outlineMeshes[i].source \in
                    {last.arg} \cup Range(lodLevels[last.arg])
        /\ sceneOutlineMeshes = NumLive(outlineMeshes)

\* A second target has replaced a first one, whose group was restored.
C3_Witness ==
    /\ last.op = "setOutlineMesh" /\ last.arg # NoMesh
    /\ UniqueIds
    /\ last.log.disposedMeshes > 0
    /\ last.log.restored # {} /\ last.arg \notin last.log.restored
    /\ Len(outlineMeshes) >= 2

(***************************************************************************)
(* C4: when the duplicate of the base mesh cannot be created,              *)
(* setOutlineMesh(t) leaves the engine idle: currentMesh is null, there    *)
(* is no duplicate, material or recorded group, and t.renderingGroupId is  *)
(* what it was before the call.                                            *)
(***************************************************************************)
C4_BaseFailureLeavesIdle ==
    \A t \in Meshes :
        (LastSelected(t) /\ t \in last.log.failed)
        => /\ currentSelectedMesh = NoMesh
           /\ Idle
           /\ renderingGroupId[t] = last.before[t]

(***************************************************************************)
(* C5: setOutlineMesh(t) for the mesh t that is outlined already does      *)
(* nothing: it disposes and creates no duplicate or material and writes no *)
(* rendering group.                                                        *)
(***************************************************************************)
C5_SameTargetNoOp ==
    [][\A t \in Meshes :
         (currentSelectedMesh = t /\ SelectStep(t))
         => /\ last'.log.disposedMeshes = 0
            /\ last'.log.disposedMaterials = 0
            /\ last'.log.createdMeshes = 0
            /\ last'.log.createdMaterials = 0
            /\ last'.log.assigned = {}
            /\ last'.log.restored = {}]_vars

(***************************************************************************)
(* C6: the rendering group of every outline duplicate differs from the     *)
(* rendering group of the mesh it outlines, base mesh or LOD level.        *)
(***************************************************************************)
C6_DistinctRenderGroups ==
    \A i \in DOMAIN outlineMeshes :
        outlineMeshes[i].renderingGroupId
            # renderingGroupId[outlineMeshes[i].source]

\* A LOD level that was in the group of the outlines before the selection
\* is outlined.
C6_Witness ==
    /\ last.op = "setOutlineMesh" /\ last.arg # NoMesh
    /\ \E i \in DOMAIN outlineMeshes :
          /\ outlineMeshes[i].source # last.arg
          /\ last.before[outlineMeshes[i].source] = OutlineRenderingGroupId

(***************************************************************************)
(* C7, as stated: for a target with n LOD levels setOutlineMesh(t)         *)
(* produces exactly n+1 duplicates, each the child of the mesh it copies.  *)
(***************************************************************************)
C7_ExactlyNPlusOne ==
    \A t \in Meshes :
        LastSelected(t)
        => /\ Len(outlineMeshes) = Len(lodLevels[t]) + 1
           /\ \A i \in DOMAIN outlineMeshes :
                 outlineMeshes[i].parent = outlineMeshes[i].source

\* The duplicates setOutlineMesh(t) is to produce when the copies of the
\* meshes in failed fail: none when the base copy fails, else the base and
\* every LOD level that is a Mesh and whose copy succeeds, in LOD order.
ExpectedSources(t, failed) ==
    IF t \in failed THEN <<>>
    ELSE <<t>> \o SelectSeq(lodLevels[t],
                            LAMBDA l : IsMesh(l) /\ l \notin failed)

(***************************************************************************)
(* C7, amended: setOutlineMesh(t) produces one duplicate for the base mesh *)
(* and one for every LOD level whose mesh is a Mesh and whose copy         *)
(* succeeds (n+1 when all n levels are), none when the copy of the base    *)
(* fails; each duplicate is the child of the mesh it copies.               *)
(***************************************************************************)
C7_LodMirroring ==
    \A t \in Meshes :
        LastSelected(t)
        => /\ Sources = ExpectedSources(t, last.log.failed)
           /\ (last.log.failed = {} /\ \A l \in Range(lodLevels[t]) : IsMesh(l))
                 => Len(outlineMeshes) = Len(lodLevels[t]) + 1
           /\ \A i \in DOMAIN outlineMeshes :
                 outlineMeshes[i].parent = outlineMeshes[i].source

\* A target with two LOD levels got two duplicates: its own and that of
\* its first level; the other level has no mesh.
C7_Witness ==
    \E t \in Meshes :
        /\ LastSelected(t)
        /\ Len(lodLevels[t]) = 2
        /\ lodLevels[t][1] # NoMesh
        /\ Sources = <<t, lodLevels[t][1]>>

(***************************************************************************)
(* C8: a call of setOutlineMesh that follows dispose() is rejected: it     *)
(* creates no duplicate and no material and changes no rendering group.    *)
(***************************************************************************)
C8_DisposedIsTerminal ==
    [][(last.op = "dispose" /\ \E mesh \in Meshes : SelectStep(mesh))
         => /\ last'.log.createdMeshes = 0
            /\ last'.log.createdMaterials = 0
            /\ last'.log.assigned = {}
            /\ outlineMeshes' = <<>>]_vars

(***************************************************************************)
(* C9: when the host has disposed the outlined mesh t, clearing the        *)
(* selection, disposing the engine or selecting another mesh disposes all  *)
(* duplicates and materials, writes no rendering group to t and empties    *)
(* the table of recorded groups.                                           *)
(***************************************************************************)
C9_DanglingTargetTolerated ==
    [][\A t \in Meshes :
         (currentSelectedMesh = t /\ IsMesh(t) /\ ~inScene[t]
            /\ outlineMeshes # <<>>)
         => /\ (ClearStep \/ Dispose)
                 => /\ outlineMeshes' = <<>>
                    /\ outlineMaterials' = <<>>
                    /\ originalRenderingGroups' = <<>>
                    /\ sceneOutlineMeshes' = 0
                    /\ sceneOutlineMaterials' = 0
                    /\ renderingGroupId'[t] = renderingGroupId[t]
                    /\ t \notin last'.log.restored
            /\ \A u \in Meshes \ {t} :
                 SelectStep(u)
                 => /\ last'.log.disposedMeshes = Len(outlineMeshes)
                    /\ last'.log.disposedMaterials = Len(outlineMaterials)
                    /\ sceneOutlineMeshes' = NumLive(outlineMeshes')
                    /\ sceneOutlineMaterials' = Len(outlineMaterials')
                    /\ t \notin last'.log.restored
                    /\ \A i \in DOMAIN originalRenderingGroups' :
                          originalRenderingGroups'[i].id = meshId[u]]_vars

\* The selection was cleared after the host had disposed the outlined
\* mesh: its duplicates were disposed and its recorded group was skipped.
C9_Witness ==
    /\ last.op \in {"setOutlineMesh", "dispose"}
    /\ UniqueIds
    /\ last.log.disposedMeshes > 0
    /\ \E t \in Meshes :
          ~inScene[t] /\ IsMesh(t) /\ meshId[t] \in last.log.skipped
    /\ sceneOutlineMeshes = NumLive(outlineMeshes)

(***************************************************************************)
(* C10: selecting a mesh does not change the children of the source mesh   *)
(* or of its LOD meshes: no outline duplicate is made their child.         *)
(***************************************************************************)
C10_ChildrenUnchanged ==
    \A m \in Meshes : OutlineChildren(m) = {}

(***************************************************************************)
(* C11: at every moment the engine has created at most one outline         *)
(* material that still exists, and every current duplicate, of the base    *)
(* mesh and of the LOD levels, has that one material.                      *)
(***************************************************************************)
C11_SingleSharedMaterial ==
    /\ Len(outlineMaterials) <= 1
    /\ sceneOutlineMaterials <= 1
    /\ \A i, j \in DOMAIN outlineMeshes :
          outlineMeshes[i].material = outlineMeshes[j].material

\* The meshes a selection of t is entitled to touch: t and its LOD meshes.
TargetAndLods(t) ==
    IF t = NoMesh THEN {} ELSE {t} \cup (Range(lodLevels[t]) \ {NoMesh})

(***************************************************************************)
(* C12: a call of setOutlineMesh or dispose changes the rendering group    *)
(* only of the mesh that was selected, of the mesh that is selected and    *)
(* of their LOD meshes, and the recorded group is written back to the      *)
(* mesh it was read from and to no other, whatever the ids of the meshes.  *)
(***************************************************************************)
C12_OnlyTargetGroupsChange ==
    [][((\E mesh \in MeshOrNull : SelectStep(mesh)) \/ Dispose)
         => /\ \A m \in Meshes :
                  renderingGroupId'[m] # renderingGroupId[m]
                  => m \in TargetAndLods(currentSelectedMesh)
                            \cup TargetAndLods(currentSelectedMesh')
            /\ last'.log.restored \subseteq {currentSelectedMesh}
            /\ (originalRenderingGroups # <<>> /\ AllInScene)
                  => currentSelectedMesh \in last'.log.restored]_vars

(***************************************************************************)
(* C14: the engine is idle or outlined.  When currentMesh is a mesh t the  *)
(* engine holds at least one duplicate of t, and when currentMesh is null  *)
(* it holds no duplicate, no material and no recorded rendering group.     *)
(***************************************************************************)
C14_IdleOrOutlined ==
    /\ currentSelectedMesh # NoMesh
          => \E i \in DOMAIN outlineMeshes :
                outlineMeshes[i].source = currentSelectedMesh
    /\ currentSelectedMesh = NoMesh => Idle

\* The rendering group recorded under the id of mesh t, or -1.
RecordedGroup(table, t) ==
    IF \E i \in DOMAIN table : table[i].id = meshId[t]
    THEN table[CHOOSE i \in DOMAIN table : table[i].id = meshId[t]].group
    ELSE -1

(***************************************************************************)
(* C15: a second setOutlineMesh(t) right after a first one, with the same  *)
(* copies failing, leaves as many duplicates and as many outline meshes    *)
(* and materials in the scene as the first call did, and the group         *)
(* recorded for t is the rendering group t had before the first call.      *)
(***************************************************************************)
C15_SelectTwice ==
    [][\A t \in Meshes :
         (/\ LastSelected(t) /\ last.idle /\ currentSelectedMesh = t
          /\ AllInScene
          /\ SelectStep(t)
          /\ last'.log.failed = last.log.failed)
         => /\ Len(outlineMeshes') = Len(outlineMeshes)
            /\ sceneOutlineMeshes' = sceneOutlineMeshes
            /\ sceneOutlineMaterials' = sceneOutlineMaterials
            /\ RecordedGroup(originalRenderingGroups', t) = last.before[t]]_vars

(***************************************************************************)
(* C16: when the copy of a LOD level fails during setOutlineMesh(t) and    *)
(* the copy of t succeeds, the selection succeeds with that level skipped: *)
(* t and every other Mesh level have their duplicate, the failed level has *)
(* none, the mesh created for the failed copy is no longer in the scene,   *)
(* and the rendering group of the failed LOD mesh is not assigned.         *)
(***************************************************************************)
C16_FailedLodSkipped ==
    \A t \in Meshes :
       (LastSelected(t) /\ last.log.failed # {} /\ t \notin last.log.failed)
       => /\ currentSelectedMesh = t
          /\ \E i \in DOMAIN outlineMeshes : outlineMeshes[i].source = t
          /\ \A l \in Extracted(t) \ last.log.failed :
                \E i \in DOMAIN outlineMeshes : outlineMeshes[i].source = l
          /\ \A l \in last.log.failed :
                /\ l \in Range(lodLevels[t])
                /\ \A i \in DOMAIN outlineMeshes : outlineMeshes[i].source # l
                /\ l \notin last.log.assigned
                /\ l \notin last.log.restored
                      => renderingGroupId[l] = last.before[l]
          /\ sceneOutlineMeshes = NumLive(outlineMeshes)
          /\ last.log.createdMeshes = Len(outlineMeshes) + Cardinality(last.log.failed)

\* A target with two LOD meshes was selected, the copy of its nearer level
\* failed, and the target and the level after the failed one have their
\* duplicates.
C16_Witness ==
    \E t \in Meshes :
       /\ LastSelected(t)
       /\ Len(lodLevels[t]) = 2
       /\ last.log.failed = {lodLevels[t][1]}
       /\ Sources = <<t, lodLevels[t][2]>>
       /\ sceneOutlineMeshes = 2
       /\ renderingGroupId[lodLevels[t][1]] = last.before[lodLevels[t][1]]

(***************************************************************************)
(* C18: dispose() and setOutlineMesh(null) have one and the same effect,   *)
(* a function of the state they are called in: all duplicates and          *)
(* materials are disposed, the recorded groups are written back through    *)
(* the id lookup and forgotten, and currentMesh is null.  A dispose() that *)
(* follows a dispose() changes nothing.                                    *)
(***************************************************************************)
C18_DisposeClears ==
    [][(Dispose \/ ClearStep)
         => /\ currentSelectedMesh' = NoMesh
            /\ outlineMeshes' = <<>>
            /\ outlineMaterials' = <<>>
            /\ originalRenderingGroups' = <<>>
            /\ sceneOutlineMeshes' = 0
            /\ sceneOutlineMaterials' = 0
            /\ last'.log.disposedMeshes = Len(outlineMeshes)
            /\ last'.log.disposedMaterials = Len(outlineMaterials)
            /\ last'.log.createdMeshes = 0
            /\ last'.log.createdMaterials = 0
            /\ last'.log.assigned = {}
            /\ last'.log.restored =
                  {m \in Meshes :
                      /\ IsMesh(m)
                      /\ \E i \in DOMAIN originalRenderingGroups :
                            GetMeshByID(originalRenderingGroups[i].id) = m}
            /\ \A m \in Meshes :
                  renderingGroupId'[m] =
                     IF m \in last'.log.restored
                     THEN RecordedGroup(originalRenderingGroups, m)
                     ELSE renderingGroupId[m]
            /\ (last.op = "dispose"
                  => UNCHANGED <<renderingGroupId, outlineMeshes,
                                 outlineMaterials, originalRenderingGroups,
                                 currentSelectedMesh, sceneOutlineMeshes,
                                 sceneOutlineMaterials>>)]_vars

\* The engine was disposed while a target with a recorded rendering group
\* was outlined: its duplicates were disposed and its group written back.
C18_Witness ==
    /\ last.op = "dispose"
    /\ last.log.disposedMeshes > 0
    /\ last.log.disposedMaterials > 0
    /\ last.log.restored # {}
    /\ \E m \in last.log.restored : last.before[m] # renderingGroupId[m]
    /\ currentSelectedMesh = NoMesh /\ Idle

(***************************************************************************)
(* C13: updateOutlineScale(k) gives every duplicate, a child of its source *)
(* mesh, the scaling k whatever scaling it had, so after a sequence of     *)
(* calls the factor is the last k and not a product; and the duplicates a  *)
(* later setOutlineMesh creates have the scaling of the last call.         *)
(***************************************************************************)
C13_LastScaleWins ==
    [][/\ \A k \in Scales :
            UpdateOutlineScale(k)
            => /\ outlineScale' = k
               /\ DOMAIN outlineMeshes' = DOMAIN outlineMeshes
               /\ \A i \in DOMAIN outlineMeshes :
                     /\ outlineMeshes'[i].scaling = k
                     /\ outlineMeshes'[i].source = outlineMeshes[i].source
                     /\ outlineMeshes'[i].parent = outlineMeshes[i].source
       /\ (\E t \in Meshes : SelectStep(t))
            => /\ outlineScale' = outlineScale
               /\ \A i \in DOMAIN outlineMeshes' :
                     /\ outlineMeshes'[i].scaling = outlineScale
                     /\ outlineMeshes'[i].parent = outlineMeshes'[i].source]_vars

\* The scale of an outlined target was updated after an earlier update to
\* another value: the duplicates have the last value, which is not the
\* product of the two.
C13_Witness ==
    /\ last.op = "updateOutlineScale"
    /\ last.style[2] \notin {DefaultOutlineScale, outlineScale}
    /\ outlineMeshes # <<>>
    /\ \A i \in DOMAIN outlineMeshes :
          /\ outlineMeshes[i].scaling = outlineScale
          /\ outlineMeshes[i].scaling # (last.style[2] * outlineScale) \div 100

(***************************************************************************)
(* C17: updateOutlineColor(c) gives every existing outline material the    *)
(* color c and rebuilds nothing: the duplicates, the list of materials,    *)
(* currentMesh and every rendering group are as before; the materials a    *)
(* later setOutlineMesh creates have the color of the last call.           *)
(***************************************************************************)
C17_ColorUpdatedInPlace ==
    [][/\ \A c \in Colors :
            UpdateOutlineColor(c)
            => /\ outlineColor' = c
               /\ DOMAIN outlineMaterials' = DOMAIN outlineMaterials
               /\ \A i \in DOMAIN outlineMaterials' :
                     /\ outlineMaterials'[i].emissiveColor = c
                     /\ outlineMaterials'[i].diffuseColor = c
               /\ sceneOutlineMaterials' = sceneOutlineMaterials
               /\ sceneOutlineMeshes' = sceneOutlineMeshes
               /\ UNCHANGED <<outlineMeshes, currentSelectedMesh,
                              renderingGroupId, originalRenderingGroups>>
       /\ (\E t \in Meshes : SelectStep(t))
            => /\ outlineColor' = outlineColor
               /\ \A i \in DOMAIN outlineMaterials' :
                     /\ outlineMaterials'[i].emissiveColor = outlineColor
                     /\ outlineMaterials'[i].diffuseColor = outlineColor]_vars

\* The color was changed while a target was outlined: its materials have
\* the new color and its duplicates still have them.
C17_Witness ==
    /\ last.op = "updateOutlineColor"
    /\ last.style[1] # outlineColor
    /\ outlineMaterials # <<>>
    /\ \A i \in DOMAIN outlineMaterials :
          outlineMaterials[i].emissiveColor = outlineColor
    /\ \A i \in DOMAIN outlineMeshes :
          outlineMeshes[i].material \in DOMAIN outlineMaterials
    /\ currentSelectedMesh # NoMesh

(***************************************************************************)
(* C19: for every outlined mesh t and scale k, the extent of the outline   *)
(* duplicate of t is centred on the pivot of t.                            *)
(***************************************************************************)
C19_CentredOnPivot ==
    \A i \in DOMAIN outlineMeshes :
       LET o == outlineMeshes[i]
       IN  OutlineExtent(o).lo + OutlineExtent(o).hi = 2 * Pivot(o.source)

(***************************************************************************)
(* C19, amended: for every outlined mesh t and scale k, the extent of the  *)
(* outline duplicate of t is the extent of t scaled by k about the pivot   *)
(* of t, wherever t is in the world: each bound of the duplicate is at k   *)
(* times the offset of the bound of t from the pivot, so the extent is k   *)
(* times as long, and it is centred on the pivot when the extent of t is.  *)
(***************************************************************************)
C19_ScaledAboutPivot ==
    \A i \in DOMAIN outlineMeshes :
       LET o == outlineMeshes[i]
           t == o.source
           k == outlineScale
       IN  /\ 100 * (OutlineExtent(o).lo - Pivot(t))
                = k * (HostExtent(t).lo - Pivot(t))
           /\ 100 * (OutlineExtent(o).hi - Pivot(t))
                = k * (HostExtent(t).hi - Pivot(t))
           /\ 100 * (OutlineExtent(o).hi - OutlineExtent(o).lo)
                = k * (HostExtent(t).hi - HostExtent(t).lo)
           /\ HostExtent(t).lo + HostExtent(t).hi = 2 * Pivot(t)
                => OutlineExtent(o).lo + OutlineExtent(o).hi = 2 * Pivot(t)

\* A mesh away from the world origin, scaled by the host and with its
\* vertices on one side of its pivot is outlined with a scale that is not
\* the default, and was moved since.
C19_Witness ==
    \E t \in Meshes :
       /\ currentSelectedMesh = t
       /\ \E i \in DOMAIN outlineMeshes : outlineMeshes[i].source = t
       /\ outlineScale > 100 /\ outlineScale # DefaultOutlineScale
       /\ geometry[t].position # 0
       /\ geometry[t].scaling # 100
       /\ geometry[t].lo + geometry[t].hi # 0
       /\ last.op = "updateOutlineScale"

(***************************************************************************)
(* C20: in the clone-based engine, setOutlineMesh(t) on an engine without  *)
(* outline followed by setOutlineMesh(null) leaves t.renderingGroupId at   *)
(* the value it had before setOutlineMesh(t) and no outline clone in the   *)
(* scene.                                                                  *)
(***************************************************************************)
C20_CloneRoundTrip ==
    [][\A t \in Meshes :
         (/\ last.op = "setOutlineMesh" /\ last.arg = t /\ IsMesh(t)
          /\ last.idle
          /\ perfect.currentSelectedMesh = t
          /\ PerfectSetOutlineMesh(NoMesh, {}))
         => /\ renderingGroupId'[t] = last.before[t]
            /\ perfect'.outlineMeshes = <<>>
            /\ perfect'.sceneOutlineMeshes = 0]_vars

(***************************************************************************)
(* C21: in the clone-based engine, when a frame has been rendered every    *)
(* outline clone has the position of the selected mesh and its scaling     *)
(* times the thickness, also when the mesh was moved since the selection   *)
(* and the caller did not invoke updateOutlinePosition().                  *)
(***************************************************************************)
C21_SyncedAtEveryFrame ==
    (perfect.rendered /\ perfect.currentSelectedMesh # NoMesh
       /\ IsMesh(perfect.currentSelectedMesh))
    => \A i \in DOMAIN perfect.outlineMeshes :
          LET o == perfect.outlineMeshes[i]
              t == perfect.currentSelectedMesh
          IN  /\ o.position = geometry[t].position
              /\ o.scaling =
                   (geometry[t].scaling * perfect.outlineThickness) \div 100

\* No call of MixedRealityEnabled is suspended.
NoCallSuspended == \A i \in DOMAIN mr.calls : ~Awaiting(mr.calls[i])

(***************************************************************************)
(* C22: whatever the interleaving of MixedRealityDisabled with suspended   *)
(* calls of MixedRealityEnabled, once every call has finished, the scene   *)
(* has no observer of the module and no _vrSimulation while                *)
(* isVRSimulationEnabled is false, and never more than one observer.       *)
(***************************************************************************)
C22_NoObserverLeftBehind ==
    NoCallSuspended
    => /\ ~mr.isVRSimulationEnabled
            => mr.observers = {} /\ mr.vrSimulation = <<>>
       /\ Cardinality(mr.observers) <= 1

(***************************************************************************)
(* C23: when MixedRealityDisabled is called after a call of                *)
(* MixedRealityEnabled has completed, navigator.xr, navigator.getVRDisplays*)
(* and navigator.requestVRDisplay are the values saved in originalWebXR.   *)
(***************************************************************************)
C23_OriginalWebXRRestored ==
    [][(/\ mr.isVRSimulationEnabled
        /\ NoCallSuspended
        /\ \E i \in DOMAIN mr.calls : mr.calls[i].pc = "done"
        /\ \E sceneAvailable \in BOOLEAN : DisableStep(sceneAvailable))
       => /\ mr.originalWebXR # <<>>
          /\ mr'.navigator = mr.originalWebXR[1]]_vars

(***************************************************************************)
(* C25: over any sequence of calls, each of _injectVRPolyfills,            *)
(* _injectAdditionalPolyfills, _injectAggressivePolyfills,                 *)
(* _injectNullSafetyPatches and _fixDOMBindingIssues is started at most    *)
(* once.                                                                   *)
(***************************************************************************)
C25_InjectedAtMostOnce ==
    /\ mr.injections.vr <= 1
    /\ mr.injections.additional <= 1
    /\ mr.injections.aggressive <= 1
    /\ mr.injections.nullSafety <= 1
    /\ mr.injections.domBinding <= 1

(***************************************************************************)
(* C26: when every call is awaited before the next, MixedRealityEnabled    *)
(* called while the simulation is enabled changes nothing, and so does     *)
(* MixedRealityDisabled called while it is disabled; the scene never has   *)
(* more than one observer of the module, and none while                    *)
(* isVRSimulationEnabled is false.                                         *)
(***************************************************************************)
C26_SequentialGuards ==
    /\ [](/\ Cardinality(mr.observers) <= 1
          /\ ~mr.isVRSimulationEnabled
                => mr.observers = {} /\ mr.vrSimulation = <<>>)
    /\ [][/\ (mr.isVRSimulationEnabled
                /\ \E valid \in BOOLEAN : SequentialEnableStep(valid, "none"))
             => mr' = [mr EXCEPT !.calls = Append(@, EnableCall("guard"))]
          /\ (/\ ~mr.isVRSimulationEnabled
              /\ \E sceneAvailable \in BOOLEAN :
                     SequentialDisableStep(sceneAvailable))
             => mr' = mr]_vars

(***************************************************************************)
(* C27: a call of MixedRealityEnabled that fails with an exception leaves  *)
(* the module disabled: isVRSimulationEnabled is false, vrHeadsetCube is   *)
(* null, no observer is registered, scene._vrSimulation is not set, the    *)
(* exception reaches the caller, and the next call of MixedRealityEnabled  *)
(* does not return at the already-enabled guard.                           *)
(***************************************************************************)
C27_RolledBackOnThrow ==
    [][\A valid \in BOOLEAN : \A throwAt \in ThrowPoints :
         (EnableStep(valid, throwAt) /\ throwAt \in RethrownThrowPoints) =>
            /\ mr'.calls[Len(mr'.calls)].pc = "thrown"
            /\ ~mr'.isVRSimulationEnabled
            /\ ~mr'.vrHeadsetCube
            /\ mr'.vrUpdateObserver = 0
            /\ mr'.observers = {}
            /\ mr'.vrSimulation = <<>>
            /\ MixedRealityEnabled(mr', TRUE, "none").calls[Len(mr'.calls) + 1].pc
                   # "guard"]_vars

\* A call of MixedRealityEnabled threw and the call made after it went past
\* the guard to its first await.
C27_Witness ==
    /\ Len(mr.calls) >= 2
    /\ mr.calls[1].pc = "thrown"
    /\ mr.calls[2].pc = "sleep"
    /\ mr.isVRSimulationEnabled

(***************************************************************************)
(* C30: the session returned by the polyfilled navigator.xr.requestSession *)
(* for an immersive session type has every required feature in its        *)
(* enabledFeatures, and its isFeatureEnabled(f) is true exactly for the    *)
(* elements f of its enabledFeatures.                                      *)
(***************************************************************************)
C30_FeaturesConsistent ==
    session.sessionType \in SessionTypes =>
        /\ \A l \in {session.requestedFeatures[i] :
                        i \in DOMAIN session.requestedFeatures} :
              \A j \in DOMAIN l : Includes(session.enabledFeatures, l[j])
        /\ \A f \in Features :
              IsFeatureEnabled(session, f) <=> Includes(session.enabledFeatures, f)

(***************************************************************************)
(* C29: after componentWillUnmount has run, _initializeEngine is not       *)
(* executed again: no pending retry timer fires, no Engine or Scene is     *)
(* created and no setState is issued.                                      *)
(***************************************************************************)
C29_NoInitAfterUnmount ==
    component.lifecycle = "unmounted" =>
        /\ component.lateInit.runs = 0
        /\ component.lateInit.setStates = 0
        /\ component.lateInit.engines = 0

(***************************************************************************)
(* C24: once every 10 second timer started by an enabling has fired,       *)
(* window.onerror and window.onunhandledrejection are the handlers that    *)
(* were installed before the first enabling: no suppression wrapper stays. *)
(***************************************************************************)
C24_HandlersRestored ==
    component.restoreTimers = <<>> =>
        /\ component.onerror = 0
        /\ component.onunhandledrejection = 0

(***************************************************************************)
(* C28: when no invocation of _handleEnableVrSimulation is suspended,      *)
(* state.isVrEnabled is the state of the simulation: true only after       *)
(* MixedRealityEnabled was called and preview.setVrSimulationEnabled(true) *)
(* applied, false only after MixedRealityDisabled was applied.             *)
(***************************************************************************)
C28_StateMatchesSimulation ==
    (\A j \in DOMAIN component.invocations :
         component.invocations[j].pc # "await")
        => /\ component.isVrEnabled = component.previewVr
           /\ component.isVrEnabled => mr.calls # <<>>

====
